---- MODULE Spec2Model ----
(***************************************************************************)
(* Model of image_group_navigator_pyside6+++.py: the decoded-image cache   *)
(* (ImageCache), the background preloader (ImagePreloader), the grouping   *)
(* of the file names, the three lists of the main window, the cursor of    *)
(* the full-screen viewer, and the display of stills, APNGs and GIFs in    *)
(* the preview and the viewer.                                             *)
(***************************************************************************)
EXTENDS Integers, Sequences, FiniteSets, TLC

\* ------------------------------------------------------------------ bounds
\* Number of distinct file paths.
NumPaths == 3
\* Number of distinct decoded values a path can yield (decode generations).
NumValues == 2
\* Largest cache capacity explored (capacities 1..MaxCap).
MaxCap == 2
\* Longest recorded sequence of cache operations since the cache was empty.
MaxOps == 4

\* Number of distinct paths the viewer asks the preloader for.
NumPreloadPaths == 2
\* Most requests and sentinels waiting in the preloader's queue plus results
\* waiting in the interactive thread's event queue.
MaxInFlight == 2

\* Most top groups, most middle groups of a top group and most files of a
\* middle group in the folders the navigation is explored on.
MaxTops == 2
MaxMiddles == 2
MaxFiles == 2
\* Most files of the middle group the preload window is explored on.
MaxWindowFiles == 5
\* Largest preload_backward and preload_forward explored.
MaxPreload == 2
\* Most files of a folder the grouping is explored on.
MaxNames == 3
\* Files of the folder the preview plays animations from
MaxPlayFiles == 2

\* Python's None (returned by ImageCache.get on a miss, queued by stop()).
\* Paths, file names and images are non-empty sequences, so that each can be
\* told from None.
None == <<>>

Paths == {<<i>> : i \in 1..NumPaths}
Values == {<<i>> : i \in 1..NumValues}
PreloadPaths == {<<i>> : i \in 1..NumPreloadPaths}

VARIABLES
    cache,      \* ImageCache.cache: OrderedDict as a sequence of [k, v], oldest first
    max_size,   \* ImageCache.max_size
    log,        \* history: the ImageCache calls made since the cache was last empty by
                \* construction or clear(), each [op, k, v, hit]
    queue,          \* ImagePreloader.queue: FIFO of paths and None sentinels
    stop_requested, \* ImagePreloader.stop_requested
    running,        \* ImagePreloader.running
    nworkers,       \* number of threads executing ImagePreloader.run
    wpc,            \* the worker's position in run(); "none" when no thread runs
    filepath,       \* run()'s local `filepath`: the item last taken from the queue
    outcome,        \* what became of that item: "none" (undecided), "missing",
                    \* "failed", "raised" or "decoded"
    events,         \* imageLoaded emissions queued for the interactive thread, [k, v]
    emitted,        \* history: imageLoaded emissions made for the item last dequeued
    dup             \* history: [p, n], a path requested again while an earlier request
                    \* for it was not decoded yet, and the number of results delivered
                    \* for it since; kept while both requests are under way and for
                    \* one state after the second delivery
VARIABLES
    image_files,    \* the image files of the folder, as os.listdir lists them
    group_dict,     \* ImageGroupNavigator.group_dict: top key -> file names, as
                    \* the sequence of its items [key, files] in insertion order
    group_keys,     \* ImageGroupNavigator.group_keys: the top keys in display order
    sort_order,     \* ImageGroupNavigator.sort_order: "name" or "date"
    left_row,       \* left_list.currentRow(), -1 when nothing is selected
    middle_list,    \* the middle keys the items of middle_list carry, in row order
    middle_row,     \* middle_list.currentRow()
    right_list,     \* the files the rows of right_list stand for
    right_row,      \* right_list.currentRow()
    fullscreen,     \* a FullScreenViewer is open
    current_index,  \* FullScreenViewer.current_index
    current_filepath,   \* _current_filepath of the viewer, or of the preview
                        \* widget where the main window is explored: the
                        \* displayed file
    preload_backward,   \* FullScreenViewer.preload_backward
    preload_forward,    \* FullScreenViewer.preload_forward
    requested       \* history: the paths the last show_current_image (or
                    \* set_image) passed to preloader.load_image, in call order
VARIABLES
    disk,               \* the animated files of the folder: name -> [ext,
                        \* durations], the extension in lower case and the
                        \* duration of each frame; any other file is a still
    apng_frames,        \* _apng_frames of the viewer (or of the preview):
                        \* the frames [pixmap, duration] of the APNG shown
    apng_frame_index,   \* _apng_frame_index
    apng_timer,         \* _apng_timer: [active, interval]
    current_pixmap,     \* _current_pixmap: the pixmap on display, or None
    current_movie       \* _current_movie of the preview: the GIF file the
                        \* QMovie on display plays, or None

cvars == <<cache, max_size, log>>
pvars == <<queue, stop_requested, running, nworkers, wpc, filepath, outcome,
           events, emitted, dup>>
mvars == <<image_files, group_dict, group_keys, sort_order, left_row, middle_list,
           middle_row, right_list, right_row>>
fvars == <<fullscreen, current_index, current_filepath, preload_backward,
           preload_forward, requested>>
dvars == <<disk, apng_frames, apng_frame_index, apng_timer, current_pixmap,
           current_movie>>
nvars == <<mvars, fvars, dvars>>
vars == <<cache, max_size, log, queue, stop_requested, running, nworkers, wpc,
          filepath, outcome, events, emitted, dup, mvars, fvars, dvars>>

\* ------------------------------------------------------------ ImageCache
\* The keys of an OrderedDict in iteration order (least recently used first).
KeysOf(c) == [i \in 1..Len(c) |-> c[i].k]

\* `filepath in self.cache`
Contains(c, k) == \E i \in 1..Len(c) : c[i].k = k

\* `self.cache[filepath]`, None standing for the miss of get()
Lookup(c, k) ==
    IF Contains(c, k) THEN c[CHOOSE i \in 1..Len(c) : c[i].k = k].v ELSE None

\* Faulty variant: move_to_end(k, last=False), which moves k to the old end.
move_to_front(c, k) ==
    SelectSeq(c, LAMBDA e : e.k = k) \o SelectSeq(c, LAMBDA e : e.k # k)

\* OrderedDict.move_to_end(k): k becomes the last entry, the others keep their order.
move_to_end(c, k) ==
    SelectSeq(c, LAMBDA e : e.k # k) \o SelectSeq(c, LAMBDA e : e.k = k)

\* Faulty variant: popitem() with its default last=True, which drops the newest entry.
popitem_last(c) == SubSeq(c, 1, Len(c) - 1)

\* OrderedDict.popitem(last=False): drop the first (oldest) entry.
popitem(c) == Tail(c)

\* Faulty variant: get() that returns the entry without promoting it.
CacheGet_NoPromote(c, k) == c

\* The OrderedDict after ImageCache.get(k).
CacheGet(c, k) == IF Contains(c, k) THEN move_to_end(c, k) ELSE c

\* Faulty variant: put() that never evicts.
CachePut_NoEvict(c, k, v, n) ==
    IF Contains(c, k) THEN move_to_end(c, k) ELSE Append(c, [k |-> k, v |-> v])

\* Faulty variant: put() that inserts without looking for the key.
CachePut_NoCheck(c, k, v, n) ==
    IF Len(c) + 1 > n THEN Tail(Append(c, [k |-> k, v |-> v]))
    ELSE Append(c, [k |-> k, v |-> v])

\* The OrderedDict after ImageCache.put(k, v) with capacity n.
CachePut(c, k, v, n) ==
    IF Contains(c, k) THEN move_to_end(c, k)
    ELSE LET c2 == Append(c, [k |-> k, v |-> v])
         IN  IF Len(c2) > n THEN popitem(c2) ELSE c2

\* ImageCache.get(filepath)
Get(k) ==
    /\ Len(log) < MaxOps
    /\ cache' = CacheGet(cache, k)
    /\ log' = Append(log, [op |-> "get", k |-> k, v |-> Lookup(cache, k),
                           hit |-> Contains(cache, k)])
    /\ UNCHANGED <<max_size, pvars, nvars>>

\* ImageCache.put(filepath, pixmap)
Put(k, v) ==
    /\ Len(log) < MaxOps
    /\ cache' = CachePut(cache, k, v, max_size)
    /\ log' = Append(log, [op |-> "put", k |-> k, v |-> v,
                           hit |-> Contains(cache, k)])
    /\ UNCHANGED <<max_size, pvars, nvars>>

\* ImageCache.clear()
Clear ==
    /\ cache' = <<>>
    /\ log' = <<>>
    /\ UNCHANGED <<max_size, pvars, nvars>>

NoDup == [p |-> None, n |-> 0]

\* ImageCache.__init__(max_size): an empty cache of any capacity 1..MaxCap.
CacheInit ==
    /\ cache = <<>>
    /\ max_size \in 1..MaxCap
    /\ log = <<>>

\* ImagePreloader.__init__: an empty queue and no worker thread.
PreloaderInit ==
    /\ queue = <<>>
    /\ running = FALSE
    /\ stop_requested = FALSE
    /\ nworkers = 0
    /\ wpc = "none"
    /\ filepath = None
    /\ outcome = "none"
    /\ events = <<>>
    /\ emitted = 0
    /\ dup = NoDup

\* A preview or a viewer as its __init__ leaves it: no frames, the timer
\* made but not started, nothing on display.
NothingShown ==
    /\ apng_frames = <<>>
    /\ apng_frame_index = 0
    /\ apng_timer = [active |-> FALSE, interval |-> 0]
    /\ current_pixmap = None
    /\ current_movie = None

\* ImageGroupNavigator.__init__ with no folder configured: empty lists, the
\* default sort order and preload counts, no full-screen viewer.
NavigatorInit ==
    /\ disk = <<>>
    /\ NothingShown
    /\ image_files = <<>>
    /\ group_dict = <<>>
    /\ group_keys = <<>>
    /\ sort_order = "name"
    /\ left_row = -1
    /\ middle_list = <<>>
    /\ middle_row = -1
    /\ right_list = <<>>
    /\ right_row = -1
    /\ fullscreen = FALSE
    /\ current_index = 0
    /\ current_filepath = None
    /\ preload_backward = 3
    /\ preload_forward = 7
    /\ requested = <<>>

\* ImagePreviewWidget.__init__: a cache and a preloader of its own, in a main
\* window that has no folder yet.
Init == CacheInit /\ PreloaderInit /\ NavigatorInit

CacheNext ==
    \/ \E k \in Paths : Get(k)
    \/ \E k \in Paths, v \in Values : Put(k, v)
    \/ Clear

\* Every sequence of get, put and clear on one ImageCache.
SpecCache == Init /\ [][CacheNext]_vars

\* -------------------------------------------------------- ImagePreloader
\* QThread.isRunning(): a thread is executing run() or has not finished yet.
isRunning == nworkers > 0

\* Requests, sentinels and results that wait in one of the two queues.
InFlight == Len(queue) + Len(events)

\* os.path.splitext(p)[1].lower(); the stills are taken to be JPEG files
ext(p) == IF p \in DOMAIN disk THEN disk[p].ext ELSE ".jpg"

\* ext == ".png" and _is_apng(p): PIL finds more than one frame in the file
is_apng(p) == ext(p) = ".png" /\ Len(disk[p].durations) > 1

\* _load_apng_frames(p) for a readable file: one {"pixmap", "duration"} per
\* frame; the pixmap of frame i of p is <<p, i>>
load_apng_frames(p) ==
    [i \in 1..Len(disk[p].durations) |->
        [pixmap |-> <<p, i>>, duration |-> disk[p].durations[i]]]

\* What a readable file decodes to: the frames of an APNG (a Python list),
\* else QPixmap(p), the pixmap <<p>>; files keep their content while the
\* program runs. A GIF decodes to the pixmap of its first frame.
Decoded(p) ==
    IF is_apng(p) THEN [list |-> TRUE, image |-> load_apng_frames(p)]
    ELSE [list |-> FALSE, image |-> <<p>>]

\* p has a request that is queued or being decoded, and no result on its way.
PendingUndecoded(p) ==
    /\ \/ \E i \in 1..Len(queue) : queue[i] = p
       \/ filepath = p /\ wpc \in {"check", "process"}
    /\ \A i \in 1..Len(events) : events[i].k # p

\* The history dup after a step that neither requests, drops nor delivers.
Settled(d) == IF d.n = 2 THEN NoDup ELSE d

\* The history dup after the worker gave up the request for path f.
Dropped(d, f) == IF d.n = 2 \/ d.p = f THEN NoDup ELSE d

\* Faulty variant: a load_image that starts a thread without asking isRunning().
LoadImage_AlwaysStart(p) ==
    /\ queue' = Append(queue, p)
    /\ running' = TRUE
    /\ stop_requested' = FALSE
    /\ nworkers' = nworkers + 1
    /\ wpc' = "while"
    /\ dup' = Settled(dup)
    /\ UNCHANGED <<nvars, filepath, outcome, emitted, events>>

\* ImagePreloader.load_image(filepath)
LoadImage(p) ==
    /\ queue' = Append(queue, p)
    /\ IF ~isRunning
       THEN /\ running' = TRUE
            /\ stop_requested' = FALSE
            /\ nworkers' = nworkers + 1
            /\ wpc' = "while"
            /\ filepath' = None
            /\ outcome' = "none"
            /\ emitted' = 0
       ELSE UNCHANGED <<running, stop_requested, nworkers, wpc, filepath,
                        outcome, emitted>>
    /\ dup' = IF Settled(dup) = NoDup /\ PendingUndecoded(p)
              THEN [p |-> p, n |-> 0] ELSE Settled(dup)
    /\ UNCHANGED <<nvars, events>>

\* ImagePreloader.stop()
Stop ==
    /\ InFlight < MaxInFlight
    /\ stop_requested' = TRUE
    /\ queue' = Append(queue, None)
    /\ dup' = Settled(dup)
    /\ UNCHANGED <<nvars, cvars, running, nworkers, wpc, filepath, outcome, events,
                   emitted>>

\* run(): `while not self.stop_requested`
W_While ==
    /\ wpc = "while"
    /\ wpc' = IF stop_requested THEN "exit" ELSE "get"
    /\ dup' = Settled(dup)
    /\ UNCHANGED <<nvars, cvars, queue, stop_requested, running, nworkers, filepath,
                   outcome, events, emitted>>

\* Faulty variant: a worker that takes the newest item of the queue.
W_Get_Newest ==
    /\ wpc = "get"
    /\ queue # <<>>
    /\ filepath' = queue[Len(queue)]
    /\ queue' = SubSeq(queue, 1, Len(queue) - 1)
    /\ outcome' = "none"
    /\ emitted' = 0
    /\ wpc' = "check"
    /\ dup' = Settled(dup)
    /\ UNCHANGED <<nvars, cvars, stop_requested, running, nworkers, events>>

\* run(): `filepath = self.queue.get(timeout=1.0)` returns an item
W_Get ==
    /\ wpc = "get"
    /\ queue # <<>>
    /\ filepath' = Head(queue)
    /\ queue' = Tail(queue)
    /\ outcome' = "none"
    /\ emitted' = 0
    /\ wpc' = "check"
    /\ dup' = Settled(dup)
    /\ UNCHANGED <<nvars, cvars, stop_requested, running, nworkers, events>>

\* run(): the get times out on an empty queue (queue.Empty: continue)
W_Timeout ==
    /\ wpc = "get"
    /\ queue = <<>>
    /\ wpc' = "while"
    /\ dup' = Settled(dup)
    /\ UNCHANGED <<nvars, cvars, queue, stop_requested, running, nworkers, filepath,
                   outcome, events, emitted>>

\* Faulty variant: a check that looks at the sentinel only, not at the flag.
W_Check_IgnoresStop ==
    /\ wpc = "check"
    /\ wpc' = IF filepath = None THEN "exit" ELSE "process"
    /\ dup' = IF filepath = None THEN Dropped(dup, filepath) ELSE Settled(dup)
    /\ UNCHANGED <<nvars, cvars, queue, stop_requested, running, nworkers, filepath,
                   outcome, events, emitted>>

\* run(): `if filepath is None or self.stop_requested: break`
W_Check ==
    /\ wpc = "check"
    /\ wpc' = IF filepath = None \/ stop_requested THEN "exit" ELSE "process"
    /\ dup' = IF filepath = None \/ stop_requested
              THEN Dropped(dup, filepath) ELSE Settled(dup)
    /\ UNCHANGED <<nvars, cvars, queue, stop_requested, running, nworkers, filepath,
                   outcome, events, emitted>>

\* run(): `if not os.path.exists(filepath): continue`
W_Missing ==
    /\ wpc = "process"
    /\ outcome' = "missing"
    /\ wpc' = "while"
    /\ dup' = Dropped(dup, filepath)
    /\ UNCHANGED <<nvars, cvars, queue, stop_requested, running, nworkers, filepath,
                   events, emitted>>

\* Faulty variant: a worker that puts its result into the cache itself.
W_DecodeOk_PutsDirectly ==
    /\ wpc = "process"
    /\ cache' = CachePut(cache, filepath, Decoded(filepath), max_size)
    /\ emitted' = emitted + 1
    /\ outcome' = "decoded"
    /\ wpc' = "while"
    /\ dup' = Settled(dup)
    /\ UNCHANGED <<nvars, max_size, log, queue, stop_requested, running, nworkers,
                   filepath, events>>

\* run(): the file decodes (frames, or a non-null pixmap) and is emitted
W_DecodeOk ==
    /\ wpc = "process"
    /\ events' = Append(events, [k |-> filepath, v |-> Decoded(filepath)])
    /\ emitted' = emitted + 1
    /\ outcome' = "decoded"
    /\ wpc' = "while"
    /\ dup' = Settled(dup)
    /\ UNCHANGED <<nvars, cvars, queue, stop_requested, running, nworkers, filepath>>

\* Faulty variant: a failed decode whose null pixmap is emitted all the same.
W_DecodeFail_Emits ==
    /\ wpc = "process"
    /\ events' = Append(events, [k |-> filepath, v |-> Decoded(filepath)])
    /\ emitted' = emitted + 1
    /\ outcome' = "failed"
    /\ wpc' = "while"
    /\ dup' = Settled(dup)
    /\ UNCHANGED <<nvars, cvars, queue, stop_requested, running, nworkers, filepath>>

\* run(): the decode fails (_load_apng_frames returns None, or the pixmap
\* is null): nothing is emitted
W_DecodeFail ==
    /\ wpc = "process"
    /\ outcome' = "failed"
    /\ wpc' = "while"
    /\ dup' = Dropped(dup, filepath)
    /\ UNCHANGED <<nvars, cvars, queue, stop_requested, running, nworkers, filepath,
                   events, emitted>>

\* Faulty variant: an exception that leaves the loop instead of being swallowed.
W_DecodeRaise_Propagates ==
    /\ wpc = "process"
    /\ outcome' = "raised"
    /\ wpc' = "exit"
    /\ dup' = Dropped(dup, filepath)
    /\ UNCHANGED <<nvars, cvars, queue, stop_requested, running, nworkers, filepath,
                   events, emitted>>

\* run(): the body raises; `except Exception` prints and the loop goes on
W_DecodeRaise ==
    /\ wpc = "process"
    /\ outcome' = "raised"
    /\ wpc' = "while"
    /\ dup' = Dropped(dup, filepath)
    /\ UNCHANGED <<nvars, cvars, queue, stop_requested, running, nworkers, filepath,
                   events, emitted>>

\* run(): the loop is left, `self.running = False`
W_Exit ==
    /\ wpc = "exit"
    /\ running' = FALSE
    /\ wpc' = "finished"
    /\ dup' = Settled(dup)
    /\ UNCHANGED <<nvars, cvars, queue, stop_requested, nworkers, filepath, outcome,
                   events, emitted>>

\* run() has returned and the thread ends: isRunning() turns false
W_Finished ==
    /\ wpc = "finished"
    /\ nworkers' = nworkers - 1
    /\ wpc' = "none"
    /\ dup' = Settled(dup)
    /\ UNCHANGED <<nvars, cvars, queue, stop_requested, running, filepath, outcome,
                   events, emitted>>

\* One step of the worker thread.
Worker ==
    \/ W_While
    \/ W_Get
    \/ W_Timeout
    \/ W_Check
    \/ W_Missing
    \/ W_DecodeOk
    \/ W_DecodeFail
    \/ W_DecodeRaise
    \/ W_Exit
    \/ W_Finished

\* ------------------------------------- the viewer (interactive thread)
\* _start_preloading, one pass of its loop: a path of the window is requested
\* unless cache.get finds it
RequestIfAbsent(p) ==
    IF ~Contains(cache, p)
    THEN /\ InFlight < MaxInFlight
         /\ LoadImage(p)
         /\ UNCHANGED cvars
    ELSE /\ cache' = CacheGet(cache, p)
         /\ dup' = Settled(dup)
         /\ UNCHANGED <<nvars, max_size, log, queue, stop_requested, running, nworkers,
                        wpc, filepath, outcome, events, emitted>>

\* set_image up to its call of _start_preloading: the cached entry is taken, or
\* the file is decoded on the spot and put into the cache (a file that cannot
\* be decoded, or a GIF, leaves the cache as it is)
SetImage(p) ==
    /\ cache' = IF Contains(cache, p) THEN CacheGet(cache, p)
                ELSE CachePut(cache, p, Decoded(p), max_size)
    /\ dup' = Settled(dup)
    /\ UNCHANGED <<nvars, max_size, log, queue, stop_requested, running, nworkers, wpc,
                   filepath, outcome, events, emitted>>

\* _on_image_preloaded, run by the interactive thread's event loop for the
\* oldest queued imageLoaded emission
OnImagePreloaded ==
    /\ events # <<>>
    /\ cache' = CachePut(cache, Head(events).k, Head(events).v, max_size)
    /\ events' = Tail(events)
    /\ dup' = IF Head(events).k = Settled(dup).p
              THEN [dup EXCEPT !.n = @ + 1] ELSE Settled(dup)
    /\ UNCHANGED <<nvars, max_size, log, queue, stop_requested, running, nworkers,
                   wpc, filepath, outcome, emitted>>

PreloadNext ==
    \/ \E p \in PreloadPaths : RequestIfAbsent(p)
    \/ \E p \in PreloadPaths : SetImage(p)
    \/ Stop
    \/ OnImagePreloaded
    \/ Worker

\* The preview widget with its cache and its preloader: every interleaving of
\* the interactive thread's handlers with the worker thread's steps.
SpecPreload == Init /\ [][PreloadNext]_vars

\* The same with a worker thread that the scheduler does not starve.
FairSpecPreload == SpecPreload /\ WF_vars(Worker)

\* ------------------------------------------------- ImageCache: properties
Last(s) == s[Len(s)]

\* k comes before j in the recency order of c.
Before(c, k, j) ==
    \E a, b \in 1..Len(c) : a < b /\ c[a].k = k /\ c[b].k = j

NoDuplicateKeys(c) ==
    \A a, b \in 1..Len(c) : c[a].k = c[b].k => a = b

\* The step appended one call to the history.
Called == Len(log') = Len(log) + 1

\* log[i] is a put of a key that was absent when it was made.
NewPut(i) == log[i].op = "put" /\ ~log[i].hit

\* log[i+1..i+m] are puts of new keys, pairwise distinct and none of them k.
NewPutsAfter(i, m, k) ==
    /\ \A j \in (i + 1)..(i + m) : NewPut(j) /\ log[j].k # k
    /\ \A a, b \in (i + 1)..(i + m) : log[a].k = log[b].k => a = b

\* C1: after every ImageCache operation, in any sequence and for every
\* capacity N >= 1, the cache holds at most N entries.
C1_SizeAtMostCapacity == Len(cache) <= max_size

\* A full cache into which more new keys were put than it can hold.
C1_Witness ==
    /\ Len(cache) = max_size
    /\ Cardinality({i \in 1..Len(log) : NewPut(i)}) > max_size

\* C2: a put of a new key into a full cache evicts exactly the least
\* recently used entry and no other; capacity+1 distinct keys put into an
\* empty cache leave exactly the last capacity keys, the first one missing.
C2_EvictsExactlyLRU ==
    /\ [][(Called /\ Last(log').op = "put" /\ ~Last(log').hit
              /\ Len(cache) = max_size)
          => cache' = Append(Tail(cache),
                             [k |-> Last(log').k, v |-> Last(log').v])]_vars
    /\ []((/\ Len(log) = max_size + 1
           /\ NewPutsAfter(0, max_size + 1, None))
          => /\ Len(cache) = max_size
             /\ KeysOf(cache) = [i \in 1..max_size |-> log[i + 1].k]
             /\ ~Contains(cache, log[1].k))

\* capacity+1 distinct keys were put into the empty cache; the first is gone.
C2_Witness ==
    /\ Len(log) = max_size + 1
    /\ NewPutsAfter(0, max_size + 1, None)
    /\ max_size > 1
    /\ ~Contains(cache, log[1].k)
    /\ Contains(cache, log[2].k)

\* C3 as stated: after a get that hits k, putting N new distinct keys
\* (none of them k) into a cache of capacity N leaves k in the cache.
C3_Original_SurvivesNPuts ==
    \A i \in 1..Len(log) :
        (/\ log[i].op = "get" /\ log[i].hit
         /\ Len(log) = i + max_size
         /\ NewPutsAfter(i, max_size, log[i].k))
        => Contains(cache, log[i].k)

\* C3 (amended): after a get that hits k, putting up to N-1 new distinct
\* keys (none of them k) leaves k in the cache; the N-th such put evicts it.
C3_SurvivesNMinus1Puts ==
    \A i \in 1..Len(log) :
        (/\ log[i].op = "get" /\ log[i].hit
         /\ NewPutsAfter(i, Len(log) - i, log[i].k))
        => /\ Len(log) - i <= max_size - 1 => Contains(cache, log[i].k)
           /\ Len(log) - i = max_size => ~Contains(cache, log[i].k)

\* k was the oldest of a full cache, a get promoted it, and N-1 >= 1 new
\* keys were put since: k is still there.
C3_Witness ==
    \E i \in 2..Len(log) :
        /\ log[i].op = "get" /\ log[i].hit
        /\ log[i - 1].op = "put" /\ log[i - 1].k # log[i].k
        /\ max_size > 1
        /\ Len(log) = i + max_size - 1
        /\ NewPutsAfter(i, max_size - 1, log[i].k)
        /\ Len(cache) = max_size
        /\ Contains(cache, log[i].k)

\* C4: a get that hits k and a put of k (new or present) make k the most
\* recently used entry and keep the relative order of all other entries; a
\* get that misses changes neither the keys nor their order.
C4_RecencyIsAccessOrder ==
    [][Called =>
        LET e == Last(log')
            others == {cache'[i].k : i \in 1..Len(cache')} \ {e.k}
        IN  IF e.op = "get" /\ ~e.hit
            THEN cache' = cache
            ELSE /\ Len(cache') > 0
                 /\ Last(cache').k = e.k
                 /\ NoDuplicateKeys(cache')
                 /\ \A a \in others : Contains(cache, a)
                 /\ \A a, b \in others :
                        Before(cache', a, b) <=> Before(cache, a, b)
                 /\ e.hit => /\ Len(cache') = Len(cache)
                             /\ Lookup(cache', e.k) = Lookup(cache, e.k)
                 /\ e.op = "get" => e.v = Lookup(cache, e.k)]_vars

\* A get hit a key that was not the most recently used one and moved it
\* behind another entry.
C4_Witness ==
    /\ Len(log) >= 3
    /\ Last(log).op = "get" /\ Last(log).hit
    /\ log[Len(log) - 1].op = "put" /\ ~log[Len(log) - 1].hit
    /\ log[Len(log) - 1].k # Last(log).k
    /\ Len(cache) >= 2
    /\ Last(cache).k = Last(log).k

\* C7: last writer wins: a put(path, v2) on a path cached with v1 makes the
\* following get(path) return v2.
C7_LastWriterWins ==
    \A i \in 1..(Len(log) - 1) :
        (/\ log[i].op = "put" /\ log[i].hit
         /\ log[i + 1].op = "get" /\ log[i + 1].k = log[i].k)
        => log[i + 1].v = log[i].v

\* ---------------------------------------------- ImagePreloader: properties
\* How many entries of c have the key k.
Count(c, k) == Cardinality({i \in 1..Len(c) : c[i].k = k})

\* The step is a load_image call: a path was appended to the queue.
Requested == Len(queue') = Len(queue) + 1 /\ Last(queue') # None

\* The step ran the imageLoaded slot for the oldest queued emission.
Delivered == events # <<>> /\ events' = Tail(events)

\* The step was taken by the worker thread.
WorkerStepped ==
    \/ wpc # "none" /\ wpc' # wpc
    \/ Len(queue') < Len(queue)
    \/ Len(events') > Len(events)

Failures == {"missing", "failed", "raised"}

\* C5: at most one worker runs per ImagePreloader at any time; a load_image
\* made while the worker runs only appends the path to the queue and starts
\* no second worker.
C5_AtMostOneWorker ==
    /\ [](nworkers <= 1)
    /\ [][(Requested /\ isRunning)
          => /\ queue' = Append(queue, Last(queue'))
             /\ UNCHANGED <<nworkers, wpc, running, stop_requested, filepath,
                            outcome, events>>]_vars

\* The one worker is decoding a path while two later requests wait.
C5_Witness ==
    /\ nworkers = 1
    /\ wpc = "process"
    /\ Len(queue) = 2
    /\ \A i \in 1..Len(queue) : queue[i] # None

\* C6: when a path is requested twice before its first decode completes, both
\* queue items are processed and, once both results are delivered, the cache
\* holds exactly one entry for that path.
C6_DuplicateRequestOneEntry ==
    /\ [][Delivered => Count(cache', Head(events).k) = 1]_vars
    /\ [][(dup.n = 1 /\ dup'.n = 2) => Count(cache', dup.p) = 1]_vars
    /\ [](NoDuplicateKeys(cache))

\* Both results of a doubly requested path were delivered; it is cached once.
C6_Witness ==
    /\ dup.p # None
    /\ dup.n = 2
    /\ Count(cache, dup.p) = 1

\* C8: the worker thread never touches the cache; a preload result reaches it
\* only through the imageLoaded slot on the interactive thread; under every
\* interleaving the capacity bound holds and the recency order is a
\* duplicate-free sequence of the cached keys.
C8_CacheSerialized ==
    /\ [][WorkerStepped => cache' = cache]_vars
    /\ [][cache' # cache
          => /\ UNCHANGED <<queue, wpc, filepath, outcome, emitted, nworkers>>
             /\ events' = events \/ Delivered]_vars
    /\ [][Delivered
          => cache' = CachePut(cache, Head(events).k, Head(events).v,
                               max_size)]_vars
    /\ [](Len(cache) <= max_size /\ NoDuplicateKeys(cache))

\* A full cache, a result for a path that is not cached waiting for delivery
\* and the worker busy decoding the next request.
C8_Witness ==
    /\ Len(cache) = max_size
    /\ events # <<>>
    /\ wpc = "process"
    /\ ~Contains(cache, Head(events).k)

\* C9: a dequeued request yields exactly one event if its file exists and
\* decodes, and none if the file is missing or the decode fails; never two.
C9_OneEventPerDecodedRequest ==
    /\ [](/\ emitted <= 1
          /\ outcome = "decoded" => emitted = 1
          /\ outcome \in Failures => emitted = 0
          /\ wpc \in {"check", "process"} => emitted = 0)
    /\ [][Len(events') > Len(events)
          => /\ wpc = "process"
             /\ outcome' = "decoded"
             /\ events' = Append(events, Last(events'))
             /\ Last(events').k = filepath]_vars
    /\ [][(wpc = "process" /\ outcome' \in Failures) => events' = events]_vars

\* A request was decoded and its one event is queued for the interactive
\* thread.
C9_Witness ==
    /\ outcome = "decoded"
    /\ emitted = 1
    /\ events # <<>>
    /\ Last(events).k = filepath

\* C10: a per-file failure never stops the worker: after a missing file or a
\* failed or raising decode the worker is still in its loop with the queue
\* untouched, and every request waiting in the queue is still dequeued and
\* processed, as long as stop() is not called (no stop flag is set and no
\* sentinel is queued, then or later).
C10_FailureKeepsWorkerRunning ==
    /\ [][(wpc = "process" /\ outcome' \in Failures)
          => /\ wpc' = "while"
             /\ UNCHANGED <<queue, nworkers, running, stop_requested>>]_vars
    /\ \A q \in PreloadPaths :
          (/\ outcome \in Failures
           /\ wpc = "while"
           /\ ~stop_requested
           /\ \A i \in 1..Len(queue) : queue[i] # None
           /\ \E i \in 1..Len(queue) : queue[i] = q)
          ~> (stop_requested \/ (wpc = "process" /\ filepath = q))

\* A request has just failed; the worker is alive at the head of its loop, no
\* stop is requested and the next request waits in the queue.
C10_Witness ==
    /\ wpc = "while"
    /\ outcome \in Failures
    /\ nworkers = 1
    /\ ~stop_requested
    /\ queue # <<>>
    /\ Head(queue) # None

\* ------------------------------------------- file names and the grouping
\* File names are strings, modelled as sequences of characters. The characters
\* that occur in the names of the model, in the order of their code points.
Chars == <<"0", "1", "2", "3", "4", "5", "6", "7", "8", "9", "_", "a", "b",
           "c", "d">>

\* ord(c)
Code(c) == CHOOSE i \in 1..Len(Chars) : Chars[i] = c

\* Faulty variant: a pattern that does not match the digit 0.
IsDigit_NotZero(c) == Code(c) <= 10 /\ Code(c) > 1

\* c is matched by \d
IsDigit(c) == Code(c) <= 10

\* One character of name.split("_"): an underscore ends the part and begins
\* an empty one, any other character is added to the last part
split_char(parts, c) ==
    IF c = "_" THEN Append(parts, <<>>)
    ELSE [parts EXCEPT ![Len(parts)] = Append(@, c)]

\* name.split("_")
split(s) ==
    LET parts[i \in 0..Len(s)] ==
            IF i = 0 THEN <<<<>>>> ELSE split_char(parts[i - 1], s[i])
    IN  parts[Len(s)]

\* One character of re.split(r"(\d+)", s). The tokens at the odd places are
\* text, those at the even places are runs of digits: a digit after text and
\* another character after digits begin a new token.
re_split_char(tokens, c) ==
    IF IsDigit(c) = (Len(tokens) % 2 = 0)
    THEN [tokens EXCEPT ![Len(tokens)] = Append(@, c)]
    ELSE Append(tokens, <<c>>)

\* The end of re.split: a string that ends with a digit gets the empty text
\* as its last token
re_split_end(tokens) ==
    IF Len(tokens) % 2 = 0 THEN Append(tokens, <<>>) ELSE tokens

\* re.split(r"(\d+)", s): text, digits, text, ..., text
re_split(s) ==
    LET tokens[i \in 0..Len(s)] ==
            IF i = 0 THEN <<<<>>>> ELSE re_split_char(tokens[i - 1], s[i])
    IN  re_split_end(tokens[Len(s)])

\* Faulty variant: a run of digits counts as its first digit.
int_FirstDigit(c) == Code(c[1]) - 1

\* int(c) of a run of digits
int(c) ==
    LET value[i \in 0..Len(c)] ==
            IF i = 0 THEN 0 ELSE 10 * value[i - 1] + (Code(c[i]) - 1)
    IN  value[Len(c)]

\* natural_key(s): the tokens of re_split with every digit run turned into
\* its number (try_int leaves the text tokens, the empty one too, as they
\* are). Text tokens sit at the odd places, numbers at the even ones.
natural_key(s) ==
    LET t == re_split(s)
    IN  [i \in 1..Len(t) |-> IF i % 2 = 0 THEN int(t[i]) ELSE t[i]]

\* str < str: by code points, a proper prefix first
StrLess(a, b) ==
    \E i \in 1..(Len(b)) :
        /\ \A j \in 1..(i - 1) : j <= Len(a) /\ a[j] = b[j]
        /\ \/ i = Len(a) + 1
           \/ i <= Len(a) /\ Code(a[i]) < Code(b[i])

\* list < list on two natural keys: the first place where they differ
\* decides, a proper prefix comes first
KeyLess(a, b) ==
    \E i \in 1..(Len(b)) :
        /\ \A j \in 1..(i - 1) : j <= Len(a) /\ a[j] = b[j]
        /\ \/ i = Len(a) + 1
           \/ /\ i <= Len(a)
              /\ IF i % 2 = 0 THEN a[i] < b[i] ELSE StrLess(a[i], b[i])

\* x put into the sorted sequence init behind every element that is not
\* greater than it
insert_sorted(init, x) ==
    LET n == Cardinality({i \in 1..Len(init) :
                 ~KeyLess(natural_key(x), natural_key(init[i]))})
    IN  SubSeq(init, 1, n) \o <<x>> \o SubSeq(init, n + 1, Len(init))

\* sorted(seq, key=natural_key): stable, equal keys keep their order
sorted(seq) ==
    LET done[i \in 0..Len(seq)] ==
            IF i = 0 THEN <<>> ELSE insert_sorted(done[i - 1], seq[i])
    IN  done[Len(seq)]

\* A dict whose values are lists, kept as the sequence of its items in
\* insertion order: d.setdefault(k, []).append(f)
setdefault_append(d, k, f) ==
    IF \E i \in 1..Len(d) : d[i].key = k
    THEN [i \in 1..Len(d) |->
             IF d[i].key = k THEN [d[i] EXCEPT !.files = Append(@, f)]
             ELSE d[i]]
    ELSE Append(d, [key |-> k, files |-> <<f>>])

\* d.keys()
keys(d) == [i \in 1..Len(d) |-> d[i].key]

\* d.get(k, [])
get(d, k) ==
    IF \E i \in 1..Len(d) : d[i].key = k
    THEN d[CHOOSE i \in 1..Len(d) : d[i].key = k].files
    ELSE <<>>

\* extract_middle_number(name)
extract_middle_number(name) ==
    LET parts == split(name)
    IN  IF Len(parts) >= 3 THEN parts[2] ELSE <<>>

\* get_middle_groups with middle_group_dict[key] = [f] in place of
\* setdefault(key, []).append(f): a key keeps only its last file
get_middle_groups_Assign(filelist) ==
    LET middle_group_dict[i \in 0..Len(filelist)] ==
            IF i = 0 THEN <<>>
            ELSE setdefault_append(
                     [j \in 1..Len(middle_group_dict[i - 1]) |->
                         IF middle_group_dict[i - 1][j].key
                                = extract_middle_number(filelist[i])
                         THEN [middle_group_dict[i - 1][j] EXCEPT !.files = <<>>]
                         ELSE middle_group_dict[i - 1][j]],
                     extract_middle_number(filelist[i]),
                     filelist[i])
    IN  middle_group_dict[Len(filelist)]

\* get_middle_groups(filelist)
get_middle_groups(filelist) ==
    LET middle_group_dict[i \in 0..Len(filelist)] ==
            IF i = 0 THEN <<>>
            ELSE setdefault_append(middle_group_dict[i - 1],
                                   extract_middle_number(filelist[i]),
                                   filelist[i])
    IN  middle_group_dict[Len(filelist)]

\* scan_folder, the grouping loop: the top key is the text before the first
\* underscore
group_by_prefix(listing) ==
    LET d[i \in 0..Len(listing)] ==
            IF i = 0 THEN <<>>
            ELSE setdefault_append(d[i - 1], split(listing[i])[1],
                                   listing[i])
    IN  d[Len(listing)]

\* scan_folder, the sorting loop: every top group in natural order
sort_groups(d) == [i \in 1..Len(d) |-> [d[i] EXCEPT !.files = sorted(@)]]

\* ------------------------------------------------- the folders explored
\* The letters the top keys are taken from.
Letters == <<"a", "b", "c", "d">>

\* str(n) for a natural number below 100
Decimal(n) ==
    IF n < 10 THEN <<Chars[n + 1]>>
    ELSE <<Chars[(n \div 10) + 1], Chars[(n % 10) + 1]>>

\* The name of file f of middle group m of top group t: "<letter>_<m>_<f>".
\* Middle groups and files are numbered from 9 on, so that their natural
\* order (9, 10, 11) is not the order of their code points.
FileName(t, m, f) ==
    <<Letters[t]>> \o <<"_">> \o Decimal(8 + m) \o <<"_">> \o Decimal(8 + f)

\* The image files of a folder with t top groups, mc[a] middle groups in top
\* group a and fc[b] files in each middle group numbered b.
Folder(t, mc, fc) ==
    {FileName(a, b, c) : <<a, b, c>> \in
        {x \in (1..t) \X (1..MaxMiddles) \X (1..MaxWindowFiles) :
            x[2] <= mc[x[1]] /\ x[3] <= fc[x[2]]}}

\* os.listdir of a folder: its entries in an order that says nothing; the
\* model lists them from the greatest name to the least.
listdir(S) ==
    [i \in 1..Cardinality(S) |->
        CHOOSE x \in S : Cardinality({y \in S : StrLess(x, y)}) = i - 1]

\* The folders the navigation is explored on: up to MaxTops top groups of m
\* middle groups each, the middle group numbered b of fc[b] files.
NavFolders ==
    {Folder(t, [a \in 1..MaxTops |-> m], fc) :
        t \in 1..MaxTops, m \in 1..MaxMiddles,
        fc \in [1..MaxMiddles -> 1..MaxFiles]}

\* The folders the preload window is explored on: one top group of two
\* middle groups, the first of 1..MaxWindowFiles files, the second of one.
WindowFolders ==
    {Folder(1, [a \in 1..1 |-> 2], [b \in 1..MaxMiddles |-> IF b = 1 THEN n ELSE 1]) :
        n \in 1..MaxWindowFiles}

\* ----------------------------------- ImageGroupNavigator: the three lists
\* The operators below take the main window (and the full-screen viewer on
\* top of it) as one record s and return the record after the call. The left
\* list shows group_keys, so it has no field of its own.
View ==
    [image_files |-> image_files, group_dict |-> group_dict, group_keys |-> group_keys,
     sort_order |-> sort_order, left_row |-> left_row,
     middle_list |-> middle_list, middle_row |-> middle_row,
     right_list |-> right_list, right_row |-> right_row,
     fullscreen |-> fullscreen, current_index |-> current_index,
     current_filepath |-> current_filepath, cache |-> cache,
     requested |-> requested, queue |-> queue,
     stop_requested |-> stop_requested, running |-> running,
     nworkers |-> nworkers, wpc |-> wpc,
     apng_frames |-> apng_frames, apng_frame_index |-> apng_frame_index,
     apng_timer |-> apng_timer, current_pixmap |-> current_pixmap,
     current_movie |-> current_movie]

\* self.get_middle_groups(self.group_dict.get(left_key, [])) for the selected
\* top key
selected_middle_groups(s) ==
    get_middle_groups(get(s.group_dict, s.group_keys[s.left_row + 1]))

\* The files of the selected middle group of the selected top group, as
\* update_right_list and the viewer's get_all_files_in_current_group look
\* them up; none without a selection.
get_all_files_in_current_group(s) ==
    IF s.left_row < 0 \/ s.middle_row < 0 THEN <<>>
    ELSE get(selected_middle_groups(s), s.middle_list[s.middle_row + 1])

\* update_right_list, the filling: the right list shows files and its first
\* row is selected
fill_right_list(s, files) ==
    [s EXCEPT !.right_list = files,
              !.right_row = IF files = <<>> THEN -1 ELSE 0]

\* on_middle_select with update_right_list
on_middle_select(s) == fill_right_list(s, get_all_files_in_current_group(s))

\* on_left_select, the filling: the middle list shows the keys ks and its
\* first row is selected, which runs on_middle_select
fill_middle_list(s, ks) ==
    on_middle_select([s EXCEPT !.middle_list = ks,
                               !.middle_row = IF ks = <<>> THEN -1 ELSE 0])

\* on_left_select: without a selected top group the other two lists are
\* emptied; else the middle list shows the middle keys of the selected top
\* group in natural order
on_left_select(s) ==
    IF s.left_row < 0
    THEN [s EXCEPT !.middle_list = <<>>, !.middle_row = -1,
                   !.right_list = <<>>, !.right_row = -1]
    ELSE fill_middle_list(s, sorted(keys(selected_middle_groups(s))))

\* left_list.setCurrentRow(r): itemSelectionChanged runs on_left_select, unless
\* r is the current row already
left_setCurrentRow(s, r) ==
    IF r = s.left_row THEN s
    ELSE on_left_select([s EXCEPT !.left_row = r])

\* middle_list.setCurrentRow(r)
middle_setCurrentRow(s, r) ==
    IF r = s.middle_row THEN s
    ELSE on_middle_select([s EXCEPT !.middle_row = r])

\* right_list.setCurrentRow(r); a row the list does not have selects nothing
right_setCurrentRow(s, r) ==
    [s EXCEPT !.right_row = IF 0 <= r /\ r < Len(s.right_list) THEN r ELSE -1]

\* os.path.getctime of a file, which get_file_creation_time returns: the
\* files of a later letter were created later
getctime(f) == Code(f[1])

\* get_group_creation_time(group_key)
get_group_creation_time(gd, k) ==
    IF get(gd, k) = <<>> THEN 0 ELSE getctime(get(gd, k)[1])

\* k put into the sequence init, which is sorted from the newest group to
\* the oldest, behind every key whose group is not older
insert_by_date(gd, init, k) ==
    LET n == Cardinality({j \in 1..Len(init) :
                 get_group_creation_time(gd, init[j])
                     >= get_group_creation_time(gd, k)})
    IN  SubSeq(init, 1, n) \o <<k>> \o SubSeq(init, n + 1, Len(init))

\* sorted(keys, key=get_group_creation_time, reverse=True): newest first,
\* equal times keep their order
sorted_by_date(gd, ks) ==
    LET done[i \in 0..Len(ks)] ==
            IF i = 0 THEN <<>> ELSE insert_by_date(gd, done[i - 1], ks[i])
    IN  done[Len(ks)]

\* refresh_left_list, the end: the row of the key that was current is
\* selected again if the list still has that key, and the first row if no
\* key was current (the empty key counts as none)
select_again(s, current_key) ==
    IF current_key # <<>>
    THEN IF \E i \in 1..Len(s.group_keys) : s.group_keys[i] = current_key
         THEN left_setCurrentRow(s,
                  (CHOOSE i \in 1..Len(s.group_keys) :
                       s.group_keys[i] = current_key) - 1)
         ELSE s
    ELSE IF s.group_keys # <<>> THEN left_setCurrentRow(s, 0)
    ELSE s

\* refresh_left_list, the filling: the left list is cleared, which leaves no
\* row selected, and shows the keys gk
fill_left_list(s, gk, current_key) ==
    select_again(on_left_select([s EXCEPT !.group_keys = gk, !.left_row = -1]),
                 current_key)

\* Faulty variant: in date order the files of every group are put in the
\* opposite order, too.
refresh_left_list_ReordersFiles(s) ==
    fill_left_list(
        [s EXCEPT !.group_dict =
            IF s.sort_order = "date"
            THEN [i \in 1..Len(@) |->
                     [@[i] EXCEPT !.files =
                         [j \in 1..Len(@) |-> @[Len(@) + 1 - j]]]]
            ELSE @],
        IF s.sort_order = "date"
        THEN sorted_by_date(s.group_dict, keys(s.group_dict))
        ELSE sorted(keys(s.group_dict)),
        IF s.left_row >= 0 THEN s.group_keys[s.left_row + 1] ELSE <<>>)

\* refresh_left_list: the keys are sorted as sort_order says
refresh_left_list(s) ==
    fill_left_list(s,
        IF s.sort_order = "date"
        THEN sorted_by_date(s.group_dict, keys(s.group_dict))
        ELSE sorted(keys(s.group_dict)),
        IF s.left_row >= 0 THEN s.group_keys[s.left_row + 1] ELSE <<>>)

\* scan_folder for the image files l of the folder in os.listdir order:
\* the window stays as it is if there are none; else they are grouped and
\* sorted, the middle and the right list are cleared and refresh_left_list
\* runs
scan_folder(s, l) ==
    IF l = <<>> THEN [s EXCEPT !.image_files = l]
    ELSE refresh_left_list(
             [s EXCEPT !.image_files = l,
                       !.group_dict = sort_groups(group_by_prefix(l)),
                       !.middle_list = <<>>, !.middle_row = -1,
                       !.right_list = <<>>, !.right_row = -1])

\* move_selection(list_widget, direction) on a list of n rows whose current
\* row is r: the row it selects
move_selection(n, r, direction) ==
    IF r = -1 THEN (IF direction > 0 THEN 0 ELSE n - 1)
    ELSE IF r + direction < 0 THEN 0
    ELSE IF r + direction > n - 1 THEN n - 1
    ELSE r + direction

\* if middle_list.count() > 0: middle_list.setCurrentRow(0)
select_first_middle(s) ==
    IF Len(s.middle_list) > 0 THEN middle_setCurrentRow(s, 0) ELSE s

\* if middle_count > 0: middle_list.setCurrentRow(middle_count - 1)
select_last_middle(s) ==
    IF Len(s.middle_list) > 0
    THEN middle_setCurrentRow(s, Len(s.middle_list) - 1)
    ELSE s

\* ImageGroupNavigator.move_to_next_left_group(), which no key, button or
\* signal of the program calls
navigator_move_to_next_left_group(s) ==
    IF Len(s.group_keys) = 0 THEN s
    ELSE IF s.left_row < Len(s.group_keys) - 1
    THEN select_first_middle(left_setCurrentRow(s, s.left_row + 1))
    ELSE s

\* ImageGroupNavigator.move_to_prev_left_group(), never called either
navigator_move_to_prev_left_group(s) ==
    IF Len(s.group_keys) = 0 THEN s
    ELSE IF s.left_row > 0
    THEN select_last_middle(left_setCurrentRow(s, s.left_row - 1))
    ELSE s

\* ImageGroupNavigator.move_to_next_middle_group(), never called either
navigator_move_to_next_middle_group(s) ==
    IF Len(s.middle_list) = 0 THEN s
    ELSE IF s.middle_row < Len(s.middle_list) - 1
    THEN middle_setCurrentRow(s, s.middle_row + 1)
    ELSE navigator_move_to_next_left_group(s)

\* ImageGroupNavigator.move_to_prev_middle_group(), never called either
navigator_move_to_prev_middle_group(s) ==
    IF Len(s.middle_list) = 0 THEN s
    ELSE IF s.middle_row > 0
    THEN middle_setCurrentRow(s, s.middle_row - 1)
    ELSE navigator_move_to_prev_left_group(s)

\* ------------------------------------------------------ FullScreenViewer
\* preloader.load_image(p) as the interactive thread sees it
load_image(s, p) ==
    IF s.nworkers > 0
    THEN [s EXCEPT !.queue = Append(@, p), !.requested = Append(@, p)]
    ELSE [s EXCEPT !.queue = Append(@, p), !.requested = Append(@, p),
                   !.running = TRUE, !.stop_requested = FALSE,
                   !.nworkers = @ + 1, !.wpc = "while"]

\* closeEvent: preloader.stop(), the timer is stopped, and the viewer is
\* gone
closeEvent(s) ==
    [s EXCEPT !.fullscreen = FALSE, !.stop_requested = TRUE,
              !.queue = Append(@, None), !.apng_timer.active = FALSE]

\* _show_apng_frame(index), of the viewer and of the preview alike
show_apng_frame(s, index) ==
    IF 0 <= index /\ index < Len(s.apng_frames)
    THEN [s EXCEPT !.current_pixmap = s.apng_frames[index + 1].pixmap,
                   !.apng_frame_index = index]
    ELSE s

\* _apng_timer.start(frames[0]["duration"]) if there is more than one frame
start_timer(s) ==
    IF Len(s.apng_frames) > 1
    THEN [s EXCEPT !.apng_timer =
              [active |-> TRUE, interval |-> s.apng_frames[1].duration]]
    ELSE s

\* The viewer's _show_cached_apng(frames), its cache status apart: the timer
\* is stopped, the frames become the current ones, the first is shown and
\* the timer started. _show_apng does the same with the frames it decodes,
\* and the preview clears its movie and its pixmap first.
show_cached_apng(s, frames) ==
    start_timer(show_apng_frame(
        [s EXCEPT !.apng_timer.active = FALSE, !.apng_frames = frames,
                  !.apng_frame_index = 0], 0))

\* _show_apng when the file cannot be decoded: the timer is stopped and no
\* frames are left
show_apng_failed(s) ==
    [s EXCEPT !.apng_timer.active = FALSE, !.apng_frames = <<>>,
              !.apng_frame_index = 0]

\* Faulty variant: the timer is set to the duration of the first frame.
next_apng_frame_FirstDuration(s) ==
    IF s.apng_frames = <<>> THEN [s EXCEPT !.apng_timer.active = FALSE]
    ELSE [show_apng_frame(s, (s.apng_frame_index + 1) % Len(s.apng_frames))
             EXCEPT !.apng_timer.interval = s.apng_frames[1].duration]

\* _next_apng_frame(), the slot of the timer's timeout, of the viewer and of
\* the preview alike
next_apng_frame(s) ==
    IF s.apng_frames = <<>> THEN [s EXCEPT !.apng_timer.active = FALSE]
    ELSE [show_apng_frame(s, (s.apng_frame_index + 1) % Len(s.apng_frames))
             EXCEPT !.apng_timer.interval =
                 s.apng_frames[((s.apng_frame_index + 1)
                                   % Len(s.apng_frames)) + 1].duration]

\* The viewer shows the image v, cached or just decoded: the frames of an
\* APNG are played; for a still the timer is stopped, the frames are
\* dropped and the pixmap is shown
show_image(s, v) ==
    IF v.list THEN show_cached_apng(s, v.image)
    ELSE [s EXCEPT !.apng_timer.active = FALSE, !.apng_frames = <<>>,
                   !.current_pixmap = v.image]

\* Faulty variant: the backward offsets counted up, from -B to -1.
Offsets_Ascending(B, F) == [k \in 1..B |-> k - B - 1] \o [k \in 1..F |-> k]

\* range(-1, -B - 1, -1) followed by range(1, F + 1)
Offsets(B, F) == [k \in 1..B |-> 0 - k] \o [k \in 1..F |-> k]

\* One pass of a loop of _get_cache_info: cache.get on the file at idx, if
\* the list has it, which makes a cached one the most recently used
cache_info_pass(s, files, idx) ==
    IF 0 <= idx /\ idx < Len(files)
    THEN [s EXCEPT !.cache = CacheGet(@, files[idx + 1])]
    ELSE s

\* The two loops of _get_cache_info over the offsets offs
cache_info_loops(s, files, offs) ==
    LET after[i \in 0..Len(offs)] ==
            IF i = 0 THEN s
            ELSE cache_info_pass(after[i - 1], files,
                                 s.current_index + offs[i])
    IN  after[Len(offs)]

\* _get_cache_info(files)
get_cache_info(s, files) ==
    cache_info_loops(s, files, Offsets(preload_backward, preload_forward))

\* One pass of a loop of _start_preloading: the file at idx, if the list has
\* it, is looked up with cache.get and passed to load_image on a miss
preloading_pass(s, files, idx) ==
    IF 0 <= idx /\ idx < Len(files)
    THEN IF ~Contains(s.cache, files[idx + 1])
         THEN load_image(s, files[idx + 1])
         ELSE [s EXCEPT !.cache = CacheGet(@, files[idx + 1])]
    ELSE s

\* The two loops of _start_preloading over the offsets offs
preloading_loops(s, files, offs) ==
    LET after[i \in 0..Len(offs)] ==
            IF i = 0 THEN s
            ELSE preloading_pass(after[i - 1], files,
                                 s.current_index + offs[i])
    IN  after[Len(offs)]

\* _start_preloading(files)
start_preloading(s, files) ==
    IF preload_backward <= 0 /\ preload_forward <= 0 THEN s
    ELSE preloading_loops(s, files,
                          Offsets(preload_backward, preload_forward))

\* show_current_image, from the cache lookup on: a cached image is shown
\* (hit); else the file is decoded and, if that yields an image (ok), shown
\* and put into the cache; the cache status is shown unless the decode
\* failed, which leaves the display as it was unless the file is an APNG;
\* then the window is preloaded
show_filepath(s, files, hit, ok) ==
    start_preloading(
        IF hit
        THEN get_cache_info(
                 show_image([s EXCEPT !.cache = CacheGet(@, s.current_filepath)],
                            Lookup(s.cache, s.current_filepath)),
                 files)
        ELSE IF ok
        THEN get_cache_info(
                 show_image([s EXCEPT !.cache =
                                 CachePut(@, s.current_filepath,
                                          Decoded(s.current_filepath), max_size)],
                            Decoded(s.current_filepath)),
                 files)
        ELSE IF is_apng(s.current_filepath) THEN show_apng_failed(s)
        ELSE s,
        files)

\* Faulty variant: the first file of the list is shown whatever the index.
show_index_FirstFile(s, files, i, ok) ==
    show_filepath([s EXCEPT !.current_index = i,
                            !.current_filepath = files[1],
                            !.requested = <<>>],
                  files, Contains(s.cache, files[1]), ok)

\* show_current_image, from the clamped index i on
show_index(s, files, i, ok) ==
    show_filepath([s EXCEPT !.current_index = i,
                            !.current_filepath = files[i + 1],
                            !.requested = <<>>],
                  files, Contains(s.cache, files[i + 1]), ok)

\* max(0, min(i, n - 1))
clamp(i, n) ==
    IF i > n - 1 THEN (IF n - 1 < 0 THEN 0 ELSE n - 1)
    ELSE IF i < 0 THEN 0
    ELSE i

\* show_current_image, from the file list on: without files the viewer
\* closes; else the index is brought into range
show_files(s, files, ok) ==
    IF files = <<>> THEN closeEvent(s)
    ELSE show_index(s, files, clamp(s.current_index, Len(files)), ok)

\* show_current_image()
show_current_image(s, ok) ==
    show_files(s, get_all_files_in_current_group(s), ok)

\* parent_window.right_list.setCurrentRow(self.current_index)
select_current_index(s) == right_setCurrentRow(s, s.current_index)

\* show_current_image() followed by
\* parent_window.right_list.setCurrentRow(self.current_index)
show_and_select(s, ok) == select_current_index(show_current_image(s, ok))

\* The end of the four moves: the first file of the group now selected is
\* shown, and the move returns True
show_first(s, ok) ==
    [moved |-> TRUE,
     s     |-> show_and_select([s EXCEPT !.current_index = 0], ok)]

\* FullScreenViewer.move_to_next_left_group(): the state it leaves and the
\* value it returns
move_to_next_left_group(s, ok) ==
    IF s.left_row < Len(s.group_keys) - 1
    THEN show_first(
             select_first_middle(left_setCurrentRow(s, s.left_row + 1)), ok)
    ELSE [moved |-> FALSE, s |-> s]

\* FullScreenViewer.move_to_prev_left_group()
move_to_prev_left_group(s, ok) ==
    IF s.left_row > 0
    THEN show_first(
             select_last_middle(left_setCurrentRow(s, s.left_row - 1)), ok)
    ELSE [moved |-> FALSE, s |-> s]

\* Faulty variant: the last middle group of a top group is followed by the
\* first one of the same top group.
move_to_next_middle_group_Cycle(s, ok) ==
    IF s.middle_row < Len(s.middle_list) - 1
    THEN show_first(middle_setCurrentRow(s, s.middle_row + 1), ok)
    ELSE show_first(middle_setCurrentRow(s, 0), ok)

\* FullScreenViewer.move_to_next_middle_group()
move_to_next_middle_group(s, ok) ==
    IF s.middle_row < Len(s.middle_list) - 1
    THEN show_first(middle_setCurrentRow(s, s.middle_row + 1), ok)
    ELSE move_to_next_left_group(s, ok)

\* FullScreenViewer.move_to_prev_middle_group()
move_to_prev_middle_group(s, ok) ==
    IF s.middle_row > 0
    THEN show_first(middle_setCurrentRow(s, s.middle_row - 1), ok)
    ELSE move_to_prev_left_group(s, ok)

\* keyPressEvent, Key_Right past the last file, after the try r to move to
\* the next middle group: if there was none, the first file of the group is
\* shown
after_next_middle_group(s, r, ok) ==
    IF r.moved THEN r.s
    ELSE show_and_select([s EXCEPT !.current_index = 0], ok)

\* keyPressEvent, Key_Right, after current_index += 1
after_increment(s, ok) ==
    IF s.current_index >= Len(get_all_files_in_current_group(s))
    THEN after_next_middle_group(s, move_to_next_middle_group(s, ok), ok)
    ELSE show_and_select(s, ok)

\* keyPressEvent, Key_Right
key_right(s, ok) == after_increment([s EXCEPT !.current_index = @ + 1], ok)

\* keyPressEvent, Key_Left before the first file, after the try r to move to
\* the previous middle group: if there was none, the last file of the group
\* is shown
after_prev_middle_group(s, r, ok) ==
    IF r.moved THEN r.s
    ELSE show_and_select(
             [s EXCEPT !.current_index =
                  Len(get_all_files_in_current_group(s)) - 1], ok)

\* keyPressEvent, Key_Left, after current_index -= 1
after_decrement(s, ok) ==
    IF s.current_index < 0
    THEN after_prev_middle_group(s, move_to_prev_middle_group(s, ok), ok)
    ELSE show_and_select(s, ok)

\* keyPressEvent, Key_Left
key_left(s, ok) == after_decrement([s EXCEPT !.current_index = @ - 1], ok)

\* ---------------------------------------------------- ImagePreviewWidget
\* _clear_movie()
clear_movie(s) == [s EXCEPT !.current_movie = None]

\* ImagePreviewWidget.clear_image(): the cache is left as it is
clear_image(s) ==
    [clear_movie(s) EXCEPT !.apng_timer.active = FALSE, !.apng_frames = <<>>,
                           !.current_pixmap = None, !.current_filepath = None]

\* One pass of a loop of _get_adjacent_files: the file at idx, if the list
\* has it, is appended
adjacent_pass(adjacent_files, files, idx) ==
    IF 0 <= idx /\ idx < Len(files)
    THEN Append(adjacent_files, files[idx + 1])
    ELSE adjacent_files

\* The two loops of _get_adjacent_files over the offsets offs, around the
\* current row of the right list
adjacent_loops(files, current_row, offs) ==
    LET adjacent_files[i \in 0..Len(offs)] ==
            IF i = 0 THEN <<>>
            ELSE adjacent_pass(adjacent_files[i - 1], files,
                               current_row + offs[i])
    IN  adjacent_files[Len(offs)]

\* _get_adjacent_files()
get_adjacent_files(s) ==
    IF s.left_row < 0 \/ s.middle_row < 0 \/ s.right_row < 0 THEN <<>>
    ELSE adjacent_loops(get_all_files_in_current_group(s), s.right_row,
                        Offsets(preload_backward, preload_forward))

\* One pass of the loop of the preview's _start_preloading
preview_preloading_pass(s, p) ==
    IF ~Contains(s.cache, p) THEN load_image(s, p)
    ELSE [s EXCEPT !.cache = CacheGet(@, p)]

\* The loop of the preview's _start_preloading over adjacent_files
preview_preloading_loop(s, adjacent_files) ==
    LET after[i \in 0..Len(adjacent_files)] ==
            IF i = 0 THEN s
            ELSE preview_preloading_pass(after[i - 1], adjacent_files[i])
    IN  after[Len(adjacent_files)]

\* ImagePreviewWidget._start_preloading()
preview_start_preloading(s) ==
    IF preload_backward <= 0 /\ preload_forward <= 0 THEN s
    ELSE preview_preloading_loop(s, get_adjacent_files(s))

\* set_image from the cache lookup to the end of the branch taken: cached
\* frames are played and a cached pixmap is shown; on a miss a GIF is played
\* as a QMovie (_show_animated_gif), an APNG is decoded, played and put into
\* the cache (_show_apng), any other file is decoded, shown and put into
\* the cache (_show_static_image). ok: the file can be decoded.
show_file(s, p, ok) ==
    IF Contains(s.cache, p)
    THEN IF Lookup(s.cache, p).list
         THEN show_cached_apng(
                  [clear_movie(s) EXCEPT !.current_pixmap = None,
                                         !.cache = CacheGet(@, p)],
                  Lookup(s.cache, p).image)
         ELSE [s EXCEPT !.current_pixmap = Lookup(s.cache, p).image,
                        !.cache = CacheGet(@, p)]
    ELSE IF ext(p) = ".gif"
    THEN [s EXCEPT !.current_pixmap = None,
                   !.current_movie = IF ok THEN p ELSE None]
    ELSE IF is_apng(p)
    THEN IF ok
         THEN show_cached_apng(
                  [clear_movie(s) EXCEPT
                       !.current_pixmap = None,
                       !.cache = CachePut(@, p, Decoded(p), max_size)],
                  load_apng_frames(p))
         ELSE show_apng_failed([clear_movie(s) EXCEPT !.current_pixmap = None])
    ELSE IF ok
    THEN [clear_movie(s) EXCEPT !.current_pixmap = Decoded(p).image,
                                !.cache = CachePut(@, p, Decoded(p), max_size)]
    ELSE [clear_movie(s) EXCEPT !.current_pixmap = None]

\* ImagePreviewWidget.set_image(p) for a file that exists: the file is
\* shown, then the files around it are preloaded
set_image(s, p, ok) ==
    preview_start_preloading(
        show_file([s EXCEPT !.current_filepath = p, !.requested = <<>>],
                  p, ok))

\* on_right_select with get_current_filepath: the selected file is shown in
\* the preview, and the preview is cleared if no file is selected
on_right_select(s, ok) ==
    IF /\ s.left_row >= 0
       /\ s.middle_row >= 0
       /\ 0 <= s.right_row
       /\ s.right_row < Len(get_all_files_in_current_group(s))
    THEN set_image(s, get_all_files_in_current_group(s)[s.right_row + 1], ok)
    ELSE clear_image(s)

\* The record s is the next state of the main window, the viewer, its cache
\* and the interactive thread's side of its preloader.
Becomes(s) ==
    /\ image_files' = s.image_files
    /\ group_dict' = s.group_dict
    /\ group_keys' = s.group_keys
    /\ sort_order' = s.sort_order
    /\ left_row' = s.left_row
    /\ middle_list' = s.middle_list
    /\ middle_row' = s.middle_row
    /\ right_list' = s.right_list
    /\ right_row' = s.right_row
    /\ fullscreen' = s.fullscreen
    /\ current_index' = s.current_index
    /\ current_filepath' = s.current_filepath
    /\ cache' = s.cache
    /\ requested' = s.requested
    /\ queue' = s.queue
    /\ stop_requested' = s.stop_requested
    /\ running' = s.running
    /\ nworkers' = s.nworkers
    /\ wpc' = s.wpc
    /\ apng_frames' = s.apng_frames
    /\ apng_frame_index' = s.apng_frame_index
    /\ apng_timer' = s.apng_timer
    /\ current_pixmap' = s.current_pixmap
    /\ current_movie' = s.current_movie
    /\ UNCHANGED <<preload_backward, preload_forward, max_size, log,
                   filepath, outcome, events, emitted, dup, disk>>

\* The main window before __init__ has scanned a folder.
Unscanned ==
    [image_files |-> <<>>, group_dict |-> <<>>, group_keys |-> <<>>, sort_order |-> "name",
     left_row |-> -1, middle_list |-> <<>>, middle_row |-> -1,
     right_list |-> <<>>, right_row |-> -1]

\* The main window after __init__ has scanned the configured folder, whose
\* image files are l.
Scanned(l) ==
    \E s \in {scan_folder(Unscanned, l)} :
        /\ image_files = s.image_files
        /\ group_dict = s.group_dict
        /\ group_keys = s.group_keys
        /\ sort_order = s.sort_order
        /\ left_row = s.left_row
        /\ middle_list = s.middle_list
        /\ middle_row = s.middle_row
        /\ right_list = s.right_list
        /\ right_row = s.right_row

\* show_fullscreen(): a FullScreenViewer is made for the selected row, with
\* a cache and a preloader of its own, and shows its first image
ShowFullscreen(ok) ==
    /\ ~fullscreen
    /\ right_row >= 0
    /\ Becomes(show_current_image(
           [View EXCEPT !.fullscreen = TRUE, !.current_index = right_row,
                        !.cache = <<>>, !.queue = <<>>, !.requested = <<>>,
                        !.stop_requested = FALSE, !.running = FALSE,
                        !.nworkers = 0, !.wpc = "none",
                        !.apng_frames = <<>>, !.apng_frame_index = 0,
                        !.apng_timer = [active |-> FALSE, interval |-> 0],
                        !.current_pixmap = None, !.current_movie = None],
                  ok))

\* Escape, the exit shortcut or a right click: close() and closeEvent
CloseViewer ==
    /\ fullscreen
    /\ Becomes(closeEvent(View))

\* A key press is taken while the preloader's queue has room.
KeyRight(ok) ==
    /\ fullscreen
    /\ InFlight < MaxInFlight
    /\ Becomes(key_right(View, ok))

KeyLeft(ok) ==
    /\ fullscreen
    /\ InFlight < MaxInFlight
    /\ Becomes(key_left(View, ok))

\* keyPressEvent, Key_Down: move_to_next_left_group()
KeyDown(ok) ==
    /\ fullscreen
    /\ InFlight < MaxInFlight
    /\ Becomes(move_to_next_left_group(View, ok).s)

\* keyPressEvent, Key_Up: move_to_prev_left_group()
KeyUp(ok) ==
    /\ fullscreen
    /\ InFlight < MaxInFlight
    /\ Becomes(move_to_prev_left_group(View, ok).s)

\* keyPressEvent, the next_middle_group shortcut
KeyNextMiddle(ok) ==
    /\ fullscreen
    /\ InFlight < MaxInFlight
    /\ Becomes(move_to_next_middle_group(View, ok).s)

\* keyPressEvent, the prev_middle_group shortcut
KeyPrevMiddle(ok) ==
    /\ fullscreen
    /\ InFlight < MaxInFlight
    /\ Becomes(move_to_prev_middle_group(View, ok).s)

ViewerNext ==
    \/ \E ok \in BOOLEAN : ShowFullscreen(ok)
    \/ CloseViewer
    \/ \E ok \in BOOLEAN : KeyRight(ok)
    \/ \E ok \in BOOLEAN : KeyLeft(ok)
    \/ \E ok \in BOOLEAN : KeyDown(ok)
    \/ \E ok \in BOOLEAN : KeyUp(ok)
    \/ \E ok \in BOOLEAN : KeyNextMiddle(ok)
    \/ \E ok \in BOOLEAN : KeyPrevMiddle(ok)

\* The main window on a scanned folder with preloading switched off (both
\* spin boxes at 0). The viewer's cache, which no step of the cursor reads,
\* is given room for one image.
NavInit ==
    /\ cache = <<>>
    /\ max_size = 1
    /\ log = <<>>
    /\ PreloaderInit
    /\ \E S \in NavFolders : Scanned(listdir(S))
    /\ disk = <<>>
    /\ NothingShown
    /\ fullscreen = FALSE
    /\ current_index = 0
    /\ current_filepath = None
    /\ preload_backward = 0
    /\ preload_forward = 0
    /\ requested = <<>>

\* The main window on a folder with one long middle group, with any preload
\* counts the spin boxes allow up to MaxPreload.
WindowInit ==
    /\ CacheInit
    /\ PreloaderInit
    /\ \E S \in WindowFolders : Scanned(listdir(S))
    /\ disk = <<>>
    /\ NothingShown
    /\ fullscreen = FALSE
    /\ current_index = 0
    /\ current_filepath = None
    /\ preload_backward \in 0..MaxPreload
    /\ preload_forward \in 0..MaxPreload
    /\ requested = <<>>

\* The full-screen viewer stepping through the groups of a folder.
SpecNav == NavInit /\ [][ViewerNext]_vars

\* The full-screen viewer preloading around its cursor.
SpecWindow == WindowInit /\ [][ViewerNext]_vars

\* ------------------------------------- the main window with its preview
\* In the steps below the cache and the preloader are those of the preview
\* widget. Filling a list selects its first row, and the selection of a row
\* of the right list runs on_right_select at the end of every handler that
\* changes the selection.

\* The arrow buttons of the left list: move_selection(self.left_list,
\* direction); a press that selects the current row again changes nothing
MoveLeft(direction, ok) ==
    /\ ~fullscreen
    /\ Len(group_keys) > 0
    /\ InFlight < MaxInFlight
    /\ move_selection(Len(group_keys), left_row, direction) # left_row
    /\ Becomes(on_right_select(
           left_setCurrentRow(View,
               move_selection(Len(group_keys), left_row, direction)), ok))

\* The arrow buttons of the middle list
MoveMiddle(direction, ok) ==
    /\ ~fullscreen
    /\ Len(middle_list) > 0
    /\ InFlight < MaxInFlight
    /\ move_selection(Len(middle_list), middle_row, direction) # middle_row
    /\ Becomes(on_right_select(
           middle_setCurrentRow(View,
               move_selection(Len(middle_list), middle_row, direction)), ok))

\* The arrow buttons of the right list
MoveRight(direction, ok) ==
    /\ ~fullscreen
    /\ Len(right_list) > 0
    /\ InFlight < MaxInFlight
    /\ move_selection(Len(right_list), right_row, direction) # right_row
    /\ Becomes(on_right_select(
           right_setCurrentRow(View,
               move_selection(Len(right_list), right_row, direction)), ok))

\* on_sort_changed(): the other radio button is checked
SortChanged(so, ok) ==
    /\ ~fullscreen
    /\ so # sort_order
    /\ InFlight < MaxInFlight
    /\ IF group_keys # <<>>
       THEN Becomes(on_right_select(
                refresh_left_list([View EXCEPT !.sort_order = so]), ok))
       ELSE Becomes([View EXCEPT !.sort_order = so])

\* The folders a rescan can find, as os.listdir lists them: no image file,
\* or up to MaxTops top groups of two middle groups of two files each.
ScanFolders ==
    {listdir(Folder(t, [a \in 1..MaxTops |-> 2], [b \in 1..MaxMiddles |-> 2])) :
        t \in 0..MaxTops}

\* on_folder_changed(): scan_folder() on a folder whose image files are l
ScanFolder(l, ok) ==
    /\ ~fullscreen
    /\ InFlight < MaxInFlight
    /\ IF l = <<>> THEN Becomes(scan_folder(View, l))
       ELSE Becomes(on_right_select(scan_folder(View, l), ok))

MainNext ==
    \/ \E direction \in {-1, 1}, ok \in BOOLEAN : MoveLeft(direction, ok)
    \/ \E direction \in {-1, 1}, ok \in BOOLEAN : MoveMiddle(direction, ok)
    \/ \E direction \in {-1, 1}, ok \in BOOLEAN : MoveRight(direction, ok)
    \/ \E so \in {"name", "date"}, ok \in BOOLEAN : SortChanged(so, ok)
    \/ \E l \in ScanFolders, ok \in BOOLEAN : ScanFolder(l, ok)

\* The main window and its preview after the widgets are made, before
\* __init__ scans the configured folder.
Constructed ==
    [image_files |-> <<>>, group_dict |-> <<>>, group_keys |-> <<>>, sort_order |-> "name",
     left_row |-> -1, middle_list |-> <<>>, middle_row |-> -1,
     right_list |-> <<>>, right_row |-> -1, fullscreen |-> FALSE,
     current_index |-> 0, current_filepath |-> None, cache |-> <<>>,
     requested |-> <<>>, queue |-> <<>>, stop_requested |-> FALSE,
     running |-> FALSE, nworkers |-> 0, wpc |-> "none",
     apng_frames |-> <<>>, apng_frame_index |-> 0,
     apng_timer |-> [active |-> FALSE, interval |-> 0],
     current_pixmap |-> None, current_movie |-> None]

\* The main window on a scanned folder, whose first file the preview shows,
\* with preloading switched off; the preview's cache has room for two
\* images.
MainInit ==
    /\ max_size = 2
    /\ log = <<>>
    /\ PreloaderInit
    /\ preload_backward = 0
    /\ preload_forward = 0
    /\ fullscreen = FALSE
    /\ current_index = 0
    /\ requested = <<>>
    /\ disk = <<>>
    /\ \E l \in ScanFolders \ {<<>>}, ok \in BOOLEAN :
           \E s \in {on_right_select(scan_folder(Constructed, l), ok)} :
               /\ image_files = s.image_files
               /\ group_dict = s.group_dict
               /\ group_keys = s.group_keys
               /\ sort_order = s.sort_order
               /\ left_row = s.left_row
               /\ middle_list = s.middle_list
               /\ middle_row = s.middle_row
               /\ right_list = s.right_list
               /\ right_row = s.right_row
               /\ current_filepath = s.current_filepath
               /\ cache = s.cache
               /\ apng_frames = s.apng_frames
               /\ apng_frame_index = s.apng_frame_index
               /\ apng_timer = s.apng_timer
               /\ current_pixmap = s.current_pixmap
               /\ current_movie = s.current_movie

\* The main window: selections, sort order and rescans.
SpecMain == MainInit /\ [][MainNext]_vars

\* ------------------------------------------------ grouping any file names
\* The file names the grouping is explored on: with no underscore, with one
\* (before a number of one or two digits), with two (the middle key a number
\* of one or two digits, or empty) and with three, under two top keys.
GroupNames ==
    UNION {{<<t>>,
            <<t, "_", "9">>,
            <<t, "_", "1", "0">>,
            <<t, "_", "9", "_", "9">>,
            <<t, "_", "1", "0", "_", "9">>,
            <<t, "_", "_", "9">>,
            <<t, "_", "9", "_", "9", "_", "9">>} : t \in {"a", "b"}}

\* What os.listdir may return for a folder of at most MaxNames of these
\* files: its files in any order.
GroupListings ==
    {l \in UNION {[1..n -> GroupNames] : n \in 0..MaxNames} :
        \A i, j \in 1..Len(l) : i # j => l[i] # l[j]}

\* The main window constructed on a folder not scanned yet, with preloading
\* switched off.
GroupInit ==
    /\ max_size = 2
    /\ log = <<>>
    /\ PreloaderInit
    /\ preload_backward = 0
    /\ preload_forward = 0
    /\ cache = <<>>
    /\ image_files \in GroupListings
    /\ disk = <<>>
    /\ NothingShown
    /\ group_dict = <<>>
    /\ group_keys = <<>>
    /\ sort_order = "name"
    /\ left_row = -1
    /\ middle_list = <<>>
    /\ middle_row = -1
    /\ right_list = <<>>
    /\ right_row = -1
    /\ fullscreen = FALSE
    /\ current_index = 0
    /\ current_filepath = None
    /\ requested = <<>>

\* scan_folder on the files of the folder
ScanImageFiles(ok) == ScanFolder(image_files, ok)

GroupNext == \E ok \in BOOLEAN : ScanImageFiles(ok)

\* The grouping of any listing.
SpecGroup == GroupInit /\ [][GroupNext]_vars

\* ------------------------------------------------- sorting any file names
\* The file names the natural order is explored on: text and digit runs in
\* every arrangement of up to four tokens, a run with a leading zero, and
\* names that differ in one digit run only. None has an underscore, so each
\* is a top key of its own and the left list shows them sorted.
SortNames ==
    {<<"a">>, <<"1">>, <<"1", "0">>,
     <<"a", "1">>, <<"a", "2">>, <<"a", "1", "0">>, <<"a", "0", "2">>,
     <<"1", "a">>, <<"a", "1", "b">>, <<"a", "1", "b", "2">>}

\* What os.listdir may return for a folder of at most MaxNames of these
\* files.
SortListings ==
    {l \in UNION {[1..n -> SortNames] : n \in 0..MaxNames} :
        \A i, j \in 1..Len(l) : i # j => l[i] # l[j]}

\* The main window constructed on a folder not scanned yet.
SortInit ==
    /\ max_size = 2
    /\ log = <<>>
    /\ PreloaderInit
    /\ preload_backward = 0
    /\ preload_forward = 0
    /\ cache = <<>>
    /\ image_files \in SortListings
    /\ disk = <<>>
    /\ NothingShown
    /\ group_dict = <<>>
    /\ group_keys = <<>>
    /\ sort_order = "name"
    /\ left_row = -1
    /\ middle_list = <<>>
    /\ middle_row = -1
    /\ right_list = <<>>
    /\ right_row = -1
    /\ fullscreen = FALSE
    /\ current_index = 0
    /\ current_filepath = None
    /\ requested = <<>>

\* The natural order of any listing.
SpecSort == SortInit /\ [][GroupNext]_vars

\* ----------------------------------------------- the preview, animations
\* What an animated file can hold: an APNG of three frames shown for 50, 100
\* and 150 ms, or a GIF (which QMovie and QPixmap read, not PIL).
Animations ==
    {[ext |-> ".png", durations |-> <<50, 100, 150>>],
     [ext |-> ".gif", durations |-> <<>>]}

\* Every choice of animated files among the files listed in l.
Disks(l) ==
    UNION {[S -> Animations] : S \in SUBSET {l[i] : i \in 1..Len(l)}}

\* The record s is the state of the main window, of the preview or viewer,
\* of its cache and of the interactive thread's side of its preloader.
Is(s) ==
    /\ image_files = s.image_files
    /\ group_dict = s.group_dict
    /\ group_keys = s.group_keys
    /\ sort_order = s.sort_order
    /\ left_row = s.left_row
    /\ middle_list = s.middle_list
    /\ middle_row = s.middle_row
    /\ right_list = s.right_list
    /\ right_row = s.right_row
    /\ fullscreen = s.fullscreen
    /\ current_index = s.current_index
    /\ current_filepath = s.current_filepath
    /\ cache = s.cache
    /\ requested = s.requested
    /\ queue = s.queue
    /\ stop_requested = s.stop_requested
    /\ running = s.running
    /\ nworkers = s.nworkers
    /\ wpc = s.wpc
    /\ apng_frames = s.apng_frames
    /\ apng_frame_index = s.apng_frame_index
    /\ apng_timer = s.apng_timer
    /\ current_pixmap = s.current_pixmap
    /\ current_movie = s.current_movie

\* The timeout of _apng_timer, which fires while the timer is active, runs
\* _next_apng_frame
NextApngFrame ==
    /\ apng_timer.active
    /\ Becomes(next_apng_frame(View))

\* The main window on a folder of one group of MaxPlayFiles files, stills
\* and animations, whose first file the preview shows; the preview preloads
\* the next file and its cache has room for two images.
PlayInit ==
    /\ max_size = 2
    /\ log = <<>>
    /\ filepath = None
    /\ outcome = "none"
    /\ events = <<>>
    /\ emitted = 0
    /\ dup = NoDup
    /\ preload_backward = 0
    /\ preload_forward = 1
    /\ \E l \in {listdir(Folder(1, [a \in 1..1 |-> 1],
                                [b \in 1..MaxMiddles |-> MaxPlayFiles]))} :
           /\ disk \in Disks(l)
           /\ \E ok \in BOOLEAN :
                  Is(on_right_select(scan_folder(Constructed, l), ok))

\* The files stay in the folder; a decode that fails yields a null pixmap
\* or no frames.
PlayNext ==
    \/ \E direction \in {-1, 1}, ok \in BOOLEAN : MoveRight(direction, ok)
    \/ NextApngFrame
    \/ W_While
    \/ W_Get
    \/ W_Timeout
    \/ W_Check
    \/ W_DecodeOk
    \/ W_DecodeFail
    \/ OnImagePreloaded

\* The preview playing and preloading the files of a group as rows are
\* selected.
SpecPlay == PlayInit /\ [][PlayNext]_vars

\* ------------------------------------- the viewer, default configuration
\* ImageGroupNavigator.preload_backward and preload_forward as __init__
\* sets them, and the max_size of the viewer's cache.
DefaultBackward == 3
DefaultForward == 7
ViewerCacheSize == 10

\* FullScreenViewer._on_image_preloaded(k, v): the result is put into the
\* cache; then, if a file is shown, the cache status is counted again with
\* cache.get on every file of the window, and the shown file is looked up
on_image_preloaded(s, files, k, v) ==
    IF s.current_filepath # None /\ files # <<>>
    THEN [get_cache_info([s EXCEPT !.cache = CachePut(@, k, v, max_size)],
                         files)
             EXCEPT !.cache = CacheGet(@, s.current_filepath)]
    ELSE [s EXCEPT !.cache = CachePut(@, k, v, max_size)]

\* _on_image_preloaded of the open viewer, run by the interactive thread's
\* event loop for the oldest queued imageLoaded emission
ViewerOnImagePreloaded ==
    /\ fullscreen
    /\ events # <<>>
    /\ cache' = on_image_preloaded(View, get_all_files_in_current_group(View),
                                   Head(events).k, Head(events).v).cache
    /\ events' = Tail(events)
    /\ dup' = Settled(dup)
    /\ UNCHANGED <<nvars, max_size, log, queue, stop_requested, running, nworkers,
                   wpc, filepath, outcome, emitted>>

\* The main window with the default preload counts on a folder of one group
\* of DefaultBackward + DefaultForward + 1 stills, the row with
\* DefaultBackward files before it selected; no viewer is open yet.
DefaultInit ==
    /\ max_size = ViewerCacheSize
    /\ log = <<>>
    /\ filepath = None
    /\ outcome = "none"
    /\ events = <<>>
    /\ emitted = 0
    /\ dup = NoDup
    /\ preload_backward = DefaultBackward
    /\ preload_forward = DefaultForward
    /\ disk = <<>>
    /\ Is(right_setCurrentRow(
              scan_folder(Constructed,
                  listdir({FileName(1, 1, f) :
                      f \in 1..(DefaultBackward + DefaultForward + 1)})),
              DefaultBackward))

\* The viewer is opened on the selected row and left alone while its
\* preloader works; every file can be decoded.
DefaultNext ==
    \/ ShowFullscreen(TRUE)
    \/ W_While
    \/ W_Get
    \/ W_Timeout
    \/ W_Check
    \/ W_DecodeOk
    \/ ViewerOnImagePreloaded

\* The viewer preloading around the file it was opened on.
SpecDefault == DefaultInit /\ [][DefaultNext]_vars

\* C11: stop() on a running worker sets the stop flag and appends one sentinel
\* to the queue and touches nothing else; while the flag is set and the worker
\* runs, the worker starts no decode, whatever waits in the queue; the one
\* decode that was under way when stop() was called can still finish and
\* emit its event; the queue is never emptied by it; and the worker
\* eventually exits, whether the queue is empty or not.
C11_StopDrainsWorker ==
    /\ [][(isRunning /\ ~stop_requested /\ stop_requested')
          => /\ queue' = Append(queue, None)
             /\ UNCHANGED <<nworkers, wpc, filepath, outcome, events, emitted,
                            cache>>]_vars
    /\ [][(isRunning /\ stop_requested)
          => /\ stop_requested'
             /\ wpc' = "process" => wpc = "process"
             /\ Len(events') > Len(events) => wpc = "process"]_vars
    /\ [](isRunning /\ stop_requested /\ wpc = "process"
          => ENABLED W_DecodeOk)
    /\ (isRunning /\ stop_requested) ~> ~isRunning

\* stop() was called while the worker was decoding one request and another
\* request was waiting: flag set, sentinel queued behind the waiting request.
C11_Witness ==
    /\ isRunning
    /\ stop_requested
    /\ wpc = "process"
    /\ Len(queue) >= 2
    /\ Head(queue) # None
    /\ Last(queue) = None

\* The preload window the specification describes, for the cursor at index i
\* of files, the counts B and F and the cache c: the files at i-1 down to i-B
\* and then at i+1 up to i+F that the list has and the cache lacks.
SpecifiedWindow(files, i, B, F, c) ==
    LET js == SelectSeq(
                  [k \in 1..(B + F) |->
                      IF k <= B THEN i - k ELSE i + (k - B)],
                  LAMBDA j : /\ 0 <= j
                             /\ j < Len(files)
                             /\ ~Contains(c, files[j + 1]))
    IN  [k \in 1..Len(js) |-> files[js[k] + 1]]

MiddleKeys(l) ==
    sorted(keys(get_middle_groups(get(group_dict, group_keys[l + 1]))))

GroupFiles(l, m) ==
    get(get_middle_groups(get(group_dict, group_keys[l + 1])),
        MiddleKeys(l)[m + 1])

\* The viewer's cursor is at the last (first) file of the selected middle
\* group.
AtLastFile ==
    fullscreen /\ current_index = Len(GroupFiles(left_row, middle_row)) - 1

AtFirstFile == fullscreen /\ current_index = 0

\* The position a record of the main window and the viewer is at, with the
\* viewer's index or with the row of the right list as the file.
ViewerPos(s) == <<s.left_row, s.middle_row, s.current_index>>

NavigatorPos(s) == <<s.left_row, s.middle_row, s.right_row>>

\* C13: a Key_Right press with the cursor at the last file of a middle group
\* that has a middle group behind it in its top group moves the cursor to the
\* first file of that next middle group; with the cursor at the last file of
\* the last middle group of a top group that has a top group behind it, it
\* moves the cursor to the first file of the first middle group of the next
\* top group. The file shown is the file at the new position, whether or not
\* it can be decoded.
C13_ForwardBoundary ==
    AtLastFile =>
        \A ok \in BOOLEAN :
            IF middle_row < Len(MiddleKeys(left_row)) - 1
            THEN /\ ViewerPos(key_right(View, ok)) =
                        <<left_row, middle_row + 1, 0>>
                 /\ key_right(View, ok).current_filepath =
                        GroupFiles(left_row, middle_row + 1)[1]
            ELSE left_row < Len(group_keys) - 1 =>
                 /\ ViewerPos(key_right(View, ok)) = <<left_row + 1, 0, 0>>
                 /\ key_right(View, ok).current_filepath =
                        GroupFiles(left_row + 1, 0)[1]

\* The cursor is at the last file of the last middle group of a top group of
\* two middle groups, a top group follows, and the Key_Right press that can
\* be taken leads to the first file of that top group.
C13_Witness ==
    /\ AtLastFile
    /\ middle_row = 1
    /\ Len(middle_list) = 2
    /\ current_index >= 1
    /\ left_row < Len(group_keys) - 1
    /\ InFlight < MaxInFlight
    /\ ViewerPos(key_right(View, TRUE)) = <<left_row + 1, 0, 0>>

\* C14: a Key_Left press with the cursor at the first file of a middle group
\* that has a middle group before it in its top group moves the cursor to the
\* last file of that previous middle group; with the cursor at the first file
\* of the first middle group of a top group that has a top group before it,
\* it moves the cursor to the last file of the last middle group of the
\* previous top group.
C14_ReverseBoundary ==
    AtFirstFile =>
        \A ok \in BOOLEAN :
            IF middle_row > 0
            THEN ViewerPos(key_left(View, ok)) =
                     <<left_row, middle_row - 1,
                       Len(GroupFiles(left_row, middle_row - 1)) - 1>>
            ELSE left_row > 0 =>
                 ViewerPos(key_left(View, ok)) =
                     <<left_row - 1, Len(MiddleKeys(left_row - 1)) - 1,
                       Len(GroupFiles(left_row - 1,
                               Len(MiddleKeys(left_row - 1)) - 1)) - 1>>

\* C15: a Key_Right press with the cursor at the last file of the last middle
\* group of the last top group moves the cursor to the first file of the
\* first middle group of the first top group, and a Key_Left press with the
\* cursor at the first file of the first middle group of the first top group
\* moves it to the last file of the last middle group of the last top group.
C15_OutermostWrap ==
    \A ok \in BOOLEAN :
        /\ (/\ AtLastFile
             /\ middle_row = Len(MiddleKeys(left_row)) - 1
             /\ left_row = Len(group_keys) - 1)
            => ViewerPos(key_right(View, ok)) = <<0, 0, 0>>
        /\ (/\ AtFirstFile
             /\ middle_row = 0
             /\ left_row = 0)
            => ViewerPos(key_left(View, ok)) =
                   <<Len(group_keys) - 1,
                     Len(MiddleKeys(Len(group_keys) - 1)) - 1,
                     Len(GroupFiles(Len(group_keys) - 1,
                             Len(MiddleKeys(Len(group_keys) - 1)) - 1)) - 1>>

\* C16: from every position the viewer can be at, a step forward or backward
\* by one file, by one middle group or by one top group ends at the same
\* position whether the viewer's key handler makes it or the main window
\* makes it on its lists (move_selection on the right list, its
\* move_to_next/prev_middle_group and move_to_next/prev_left_group).
C16_SameStep ==
    fullscreen =>
        \A ok \in BOOLEAN :
            /\ ViewerPos(key_right(View, ok)) =
                   <<left_row, middle_row,
                     move_selection(Len(right_list), right_row, 1)>>
            /\ ViewerPos(key_left(View, ok)) =
                   <<left_row, middle_row,
                     move_selection(Len(right_list), right_row, -1)>>
            /\ ViewerPos(move_to_next_middle_group(View, ok).s) =
                   NavigatorPos(navigator_move_to_next_middle_group(View))
            /\ ViewerPos(move_to_prev_middle_group(View, ok).s) =
                   NavigatorPos(navigator_move_to_prev_middle_group(View))
            /\ ViewerPos(move_to_next_left_group(View, ok).s) =
                   NavigatorPos(navigator_move_to_next_left_group(View))
            /\ ViewerPos(move_to_prev_left_group(View, ok).s) =
                   NavigatorPos(navigator_move_to_prev_left_group(View))

\* C17: while the viewer is open on a middle group that has files, its index
\* is an index of the file list of the selected middle group of the selected
\* top group, and the file shown is the file at that index. Every step reads
\* the list at an index it has; a read outside it would stop the evaluation
\* of the step.
C17_IndexInRange ==
    fullscreen /\ GroupFiles(left_row, middle_row) # <<>> =>
        /\ 0 <= current_index
        /\ current_index <= Len(GroupFiles(left_row, middle_row)) - 1
        /\ current_filepath = GroupFiles(left_row, middle_row)[current_index + 1]

\* The viewer is at the outermost boundary, the first file of the first
\* middle group of two files, and the Key_Left press that can be taken shows
\* the last file of this group.
C17_Witness ==
    /\ fullscreen
    /\ left_row = 0
    /\ middle_row = 0
    /\ current_index = 0
    /\ Len(right_list) = 2
    /\ InFlight < MaxInFlight
    /\ key_left(View, TRUE).current_index = 1
    /\ key_left(View, TRUE).current_filepath = right_list[2]

\* C18: whatever is selected in the main window, a rescan that finds image
\* files leaves the first row of the left list (the first top group in the
\* display order), the first row of the middle list and the first row of the
\* right list selected.
C18_RescanResetsCursor ==
    ~fullscreen =>
        \A l \in ScanFolders \ {<<>>}, ok \in BOOLEAN :
            NavigatorPos(on_right_select(scan_folder(View, l), ok)) = <<0, 0, 0>>

\* C19: whatever the preview's cache holds, after a rescan that finds image
\* files it holds no entry from before the rescan: it is empty, or holds only
\* the file the rescan itself has just shown in the preview.
C19_RescanClearsCache ==
    ~fullscreen =>
        \A l \in ScanFolders \ {<<>>}, ok \in BOOLEAN :
            IF on_right_select(scan_folder(View, l), ok).right_row >= 0
            THEN \A i \in 1..Len(on_right_select(scan_folder(View, l), ok).cache) :
                     on_right_select(scan_folder(View, l), ok).cache[i].k =
                         on_right_select(scan_folder(View, l), ok).current_filepath
            ELSE on_right_select(scan_folder(View, l), ok).cache = <<>>

\* The number of files in all the groups of a dict of lists.
TotalFiles(d) ==
    LET total[i \in 0..Len(d)] ==
            IF i = 0 THEN 0 ELSE total[i - 1] + Len(d[i].files)
    IN  total[Len(d)]

\* The places <<group, position>> of a dict of lists that hold file f.
Places(d, f) ==
    {p \in UNION {{<<j, k>> : k \in 1..Len(d[j].files)} : j \in 1..Len(d)} :
        d[p[1]].files[p[2]] = f}

\* C20: the middle groups of every top group partition its file list: the
\* sizes of the middle groups add up to the size of the top group, and every
\* file of the top group is in exactly one middle group, exactly once.
C20_MiddleGroupsPartition ==
    \A i \in 1..Len(group_dict) :
        /\ TotalFiles(get_middle_groups(group_dict[i].files))
               = Len(group_dict[i].files)
        /\ \A k \in 1..Len(group_dict[i].files) :
               Cardinality(Places(get_middle_groups(group_dict[i].files),
                                  group_dict[i].files[k])) = 1

\* A scanned top group of three files in two middle groups, one of them the
\* group of the empty key.
C20_Witness ==
    \E i \in 1..Len(group_dict) :
        /\ Len(group_dict[i].files) = 3
        /\ Len(get_middle_groups(group_dict[i].files)) = 2
        /\ get(get_middle_groups(group_dict[i].files), <<>>) # <<>>
        /\ middle_list = keys(get_middle_groups(group_dict[i].files))

\* The lists of the middle groups mg one after the other, in the order ks of
\* their keys.
Concatenated(mg, ks) ==
    LET joined[i \in 0..Len(ks)] ==
            IF i = 0 THEN <<>> ELSE joined[i - 1] \o get(mg, ks[i])
    IN  joined[Len(ks)]

\* C21: for every top group, the lists of its middle groups, concatenated in
\* the natural order of the middle keys (the order of the middle list), are
\* the file list of the top group, which scan_folder sorted in natural order.
C21_MiddleListsConcatenate ==
    \A i \in 1..Len(group_dict) :
        Concatenated(get_middle_groups(group_dict[i].files),
                     sorted(keys(get_middle_groups(group_dict[i].files))))
            = group_dict[i].files

\* The sequences a and b hold the same elements, each as often.
SameElements(a, b) ==
    /\ Len(a) = Len(b)
    /\ \A x \in {a[i] : i \in 1..Len(a)} :
           Cardinality({i \in 1..Len(a) : a[i] = x})
               = Cardinality({i \in 1..Len(b) : b[i] = x})

\* C22: the files of every top group are in natural order, whatever the sort
\* order of the left list; and a step that changes the sort order permutes
\* the keys of the left list and leaves the file list and the middle groups
\* of every top key as they were.
C22_SortKeepsFileLists ==
    /\ [](\A i \in 1..Len(group_dict) :
             group_dict[i].files = sorted(group_dict[i].files))
    /\ [][sort_order' # sort_order =>
             /\ SameElements(group_keys', group_keys)
             /\ SameElements(keys(group_dict'), keys(group_dict))
             /\ \A i \in 1..Len(group_keys) :
                    /\ get(group_dict', group_keys[i])
                           = get(group_dict, group_keys[i])
                    /\ get_middle_groups(get(group_dict', group_keys[i]))
                           = get_middle_groups(get(group_dict, group_keys[i]))
         ]_vars

\* The left list is in date order, which is not the name order of its two
\* keys, and the selected top group has several files in several middle
\* groups.
C22_Witness ==
    /\ sort_order = "date"
    /\ Len(group_keys) = 2
    /\ group_keys # sorted(keys(group_dict))
    /\ left_row >= 0
    /\ Len(get(group_dict, group_keys[left_row + 1])) >= 2
    /\ Len(middle_list) >= 2

\* The number a run of decimal digits stands for: the number below 100 whose
\* decimal form the run is, after any leading zeros.
DigitRunValue(run) ==
    CHOOSE n \in 0..99 :
        \E z \in 0..Len(run) : run = [i \in 1..z |-> "0"] \o Decimal(n)

\* The names x and y are the same but for one run of digits, the token at
\* place p of both.
DifferInDigitRun(x, y, p) ==
    /\ Len(re_split(x)) = Len(re_split(y))
    /\ p \in 1..Len(re_split(x))
    /\ p % 2 = 0
    /\ \A q \in 1..Len(re_split(x)) :
           (re_split(x)[q] # re_split(y)[q]) <=> (q = p)

\* C23: sorting by natural_key puts names that differ in one digit run only
\* in the order of the numbers of that run; the listing a10, a2, a1 is shown
\* as a1, a2, a10.
C23_DigitRunsByValue ==
    /\ image_files = <<<<"a", "1", "0">>, <<"a", "2">>, <<"a", "1">>>>
           /\ group_keys # <<>>
        => group_keys = <<<<"a", "1">>, <<"a", "2">>, <<"a", "1", "0">>>>
    /\ \A i, j \in 1..Len(group_keys) :
           \A p \in 1..Len(group_keys[i]) :
               i < j /\ DifferInDigitRun(group_keys[i], group_keys[j], p)
                   => DigitRunValue(re_split(group_keys[i])[p])
                          <= DigitRunValue(re_split(group_keys[j])[p])

\* The folder lists a10, a2, a1 and was scanned.
C23_Witness ==
    /\ image_files = <<<<"a", "1", "0">>, <<"a", "2">>, <<"a", "1">>>>
    /\ group_keys = <<<<"a", "1">>, <<"a", "2">>, <<"a", "1", "0">>>>

\* int(token) returns a number: the token is a non-empty run of decimal
\* digits. try_int leaves every other token as the string it is.
IntAccepts(token) ==
    /\ token # <<>>
    /\ \A i \in 1..Len(token) :
           token[i] \in {"0", "1", "2", "3", "4", "5", "6", "7", "8", "9"}

\* The tokens of the key of name x alternate: strings at the odd places, the
\* first and the last one included, and numbers at the even places.
Alternates(x) ==
    /\ Len(re_split(x)) % 2 = 1
    /\ \A q \in 1..Len(re_split(x)) :
           IntAccepts(re_split(x)[q]) <=> (q % 2 = 0)

\* natural_key(x) <= natural_key(y)
KeyLeq(x, y) == ~KeyLess(natural_key(y), natural_key(x))

\* C24: the key of every name alternates string, number, string, ...,
\* beginning with a string, so two keys never have a number and a string at
\* the same place; the order of the keys is total and transitive, and names
\* that neither precede the other have equal keys; the sorted list is
\* ascending in that order.
C24_NaturalKeyPreorder ==
    /\ \A i \in 1..Len(image_files) : Alternates(image_files[i])
    /\ \A i, j \in 1..Len(image_files) :
           /\ KeyLeq(image_files[i], image_files[j])
                  \/ KeyLeq(image_files[j], image_files[i])
           /\ KeyLeq(image_files[i], image_files[j])
                  /\ KeyLeq(image_files[j], image_files[i])
               => natural_key(image_files[i]) = natural_key(image_files[j])
    /\ \A i, j, k \in 1..Len(image_files) :
           KeyLeq(image_files[i], image_files[j])
               /\ KeyLeq(image_files[j], image_files[k])
           => KeyLeq(image_files[i], image_files[k])
    /\ \A i \in 1..(Len(group_keys) - 1) :
           KeyLeq(group_keys[i], group_keys[i + 1])

\* Three names were sorted, among them a name of digits only, one that
\* begins with a letter and one key that is a proper prefix of another.
C24_Witness ==
    /\ Len(group_keys) = 3
    /\ <<"1", "0">> \in {image_files[i] : i \in 1..3}
    /\ <<"a", "1">> \in {image_files[i] : i \in 1..3}
    /\ <<"a", "1", "b", "2">> \in {image_files[i] : i \in 1..3}

\* C27: a worker that load_image started after a stop() serves the requests:
\* while stop() is not called again it does not end, so no path is left in
\* the queue with no stop requested and no worker in its loop.
C27_FreshWorkerServes ==
    ~stop_requested /\ wpc \in {"exit", "finished", "none"}
        => \A i \in 1..Len(queue) : queue[i] = None

\* C28: the queue changes only by a new item at its end or by the worker
\* taking its first item, so requests are served in the order they were made
\* and none is taken back; and if stop() is never called, every path in the
\* queue is eventually dequeued and processed by a worker that is scheduled.
C28_EveryRequestServed ==
    /\ [][\/ queue' = queue
          \/ Len(queue') = Len(queue) + 1
                 /\ SubSeq(queue', 1, Len(queue)) = queue
          \/ queue # <<>> /\ queue' = Tail(queue)
                 /\ filepath' = Head(queue) /\ wpc' = "check"]_vars
    /\ ([]~stop_requested)
           => \A p \in PreloadPaths :
                  (\E i \in 1..Len(queue) : queue[i] = p)
                      ~> (filepath = p /\ wpc = "process")

\* No stop is pending, the worker is processing one path and two more
\* requests wait behind it.
C28_Witness ==
    /\ ~stop_requested
    /\ wpc = "process"
    /\ Len(queue) = 2
    /\ \A i \in 1..Len(queue) : queue[i] # None

\* A step in which the animation timer fired: no row was selected, the
\* worker did not move and no result was delivered, yet the display changed.
TimerFired ==
    /\ apng_timer.active
    /\ UNCHANGED <<right_row, wpc, events>>
    /\ dvars' # dvars

\* C25: when the animation timer fires on a non-empty frame sequence, the
\* frame index becomes (index + 1) mod len(frames), the frame at the new
\* index is displayed, the sequence is left as it is, and the timer stays
\* armed with the interval set to the duration of the frame just displayed;
\* so three frames of 50, 100 and 150 ms are shown in the order 0, 1, 2, 0
\* and the interval after frame 2 is displayed is 150.
C25_TimerFireAdvancesFrame ==
    [][TimerFired /\ apng_frames # <<>>
         => /\ apng_frames' = apng_frames
            /\ apng_frame_index' = (apng_frame_index + 1) % Len(apng_frames)
            /\ current_pixmap' = apng_frames[apng_frame_index' + 1].pixmap
            /\ apng_timer' =
                   [active |-> TRUE,
                    interval |-> apng_frames[apng_frame_index' + 1].duration]
            /\ [i \in 1..Len(apng_frames) |-> apng_frames[i].duration]
                   = <<50, 100, 150>> /\ apng_frame_index' = 2
                   => apng_timer'.interval = 150]_vars

\* An APNG of three frames has played up to its last frame, which is on
\* display with the timer set to 150 ms.
C25_Witness ==
    /\ Len(apng_frames) = 3
    /\ apng_frame_index = 2
    /\ current_pixmap = apng_frames[3].pixmap
    /\ apng_timer = [active |-> TRUE, interval |-> 150]

\* C26: a view that stops showing an animation stops the timer before it
\* drops or replaces the frames; so while the selected file is a still that
\* was decoded (the cache holds its pixmap), the timer is not active and the
\* pixmap on display, if any, is an image of the selected file, never a
\* frame of an animation shown before.
C26_TimerStoppedWithAnimation ==
    /\ current_filepath # None
    /\ Contains(cache, current_filepath)
    /\ ~Lookup(cache, current_filepath).list
    /\ ext(current_filepath) = ".jpg"
    => /\ ~apng_timer.active
       /\ current_pixmap # None => current_pixmap[1] = current_filepath

\* The view s has an image of the file p on display: its movie, its pixmap
\* or one of its frames.
Shows(s, p) ==
    \/ s.current_movie = p
    \/ s.current_pixmap # None /\ s.current_pixmap[1] = p

\* The view s plays the file p: as a movie, or frame by frame on the timer.
Plays(s, p) ==
    \/ s.current_movie = p
    \/ /\ s.apng_timer.active
       /\ s.apng_frames # <<>>
       /\ s.apng_frames[1].pixmap[1] = p

\* C29: the selected file is presented as its synchronous decode on a cache
\* miss would present it, as a still or as an animation, also when it is
\* served from a cache entry the preloader produced.
C29_SamePresentation ==
    current_filepath # None /\ Shows(View, current_filepath)
        => (Plays(View, current_filepath)
               <=> Plays(show_file([View EXCEPT !.cache = <<>>],
                                   current_filepath, TRUE),
                         current_filepath))

\* The preloader has nothing left to do and every result was delivered.
Drained ==
    /\ queue = <<>>
    /\ events = <<>>
    /\ wpc \in {"while", "get"}

\* C30: with the default preload counts and cache size, a viewer opened on
\* a file with at least DefaultBackward files before it and DefaultForward
\* after it holds, once its preloader has drained and every result was
\* delivered, the shown file and the files next to it on both sides in its
\* cache.
C30_NeighboursCached ==
    /\ fullscreen
    /\ Drained
    /\ current_index >= DefaultBackward
    /\ current_index + DefaultForward < Len(right_list)
    => \A i \in {current_index - 1, current_index, current_index + 1} :
           Contains(cache, right_list[i + 1])
====
